---- MODULE Spec2Model ----
(***************************************************************************)
(* Contact-identity resolution of scripts/process_daily_sync.py:           *)
(* the identity normalizers, the People-File index, the Contact Directory  *)
(* and the new-people / outreach candidate resolver.                       *)
(*                                                                         *)
(* Python strings are TLC strings; a character is a string of length 1.    *)
(***************************************************************************)
EXTENDS Integers, Sequences, FiniteSets, TLC

----------------------------------------------------------------------------
(* Python str primitives used by the scripts                               *)

Digits == {"0", "1", "2", "3", "4", "5", "6", "7", "8", "9"}

UpperAlpha == "ABCDEFGHIJKLMNOPQRSTUVWXYZ"

LowerAlpha == "abcdefghijklmnopqrstuvwxyz"

LowerLetters == {SubSeq(LowerAlpha, k, k) : k \in 1..Len(LowerAlpha)}

UpperLetters == {SubSeq(UpperAlpha, k, k) : k \in 1..Len(UpperAlpha)}

\* the characters of [a-z0-9]
SlugChars == LowerLetters \cup Digits

Whitespace == {" ", "\t", "\n"}

\* s[k-1] of Python, 1-based here
At(s, k) == SubSeq(s, k, k)

\* str.lower() on one character
lower_char(ch) ==
    IF ch \in UpperLetters
    THEN At(LowerAlpha, CHOOSE k \in 1..Len(UpperAlpha) : At(UpperAlpha, k) = ch)
    ELSE ch

RECURSIVE lower(_)
\* str.lower()
lower(s) == IF s = "" THEN "" ELSE lower_char(At(s, 1)) \o lower(Tail(s))

RECURSIVE lstrip(_, _)
\* str.lstrip(chars)
lstrip(s, chars) ==
    IF s # "" /\ At(s, 1) \in chars THEN lstrip(Tail(s), chars) ELSE s

RECURSIVE rstrip(_, _)
\* str.rstrip(chars)
rstrip(s, chars) ==
    IF s # "" /\ At(s, Len(s)) \in chars
    THEN rstrip(SubSeq(s, 1, Len(s) - 1), chars)
    ELSE s

\* str.strip(): leading and trailing whitespace removed
strip(s) == rstrip(lstrip(s, Whitespace), Whitespace)

\* str.startswith(prefix)
startswith(s, prefix) ==
    Len(s) >= Len(prefix) /\ SubSeq(s, 1, Len(prefix)) = prefix

\* `sub in s` for strings
contains(s, sub) ==
    \E k \in 1..(Len(s) - Len(sub) + 1) : SubSeq(s, k, k + Len(sub) - 1) = sub

RECURSIVE remove_chars(_, _)
\* chained str.replace(ch, '') for every ch of chars
remove_chars(s, chars) ==
    IF s = "" THEN ""
    ELSE (IF At(s, 1) \in chars THEN "" ELSE At(s, 1)) \o remove_chars(Tail(s), chars)

RECURSIVE keep_chars(_, _)
\* re.sub of every run of characters outside chars by ''
keep_chars(s, chars) ==
    IF s = "" THEN ""
    ELSE (IF At(s, 1) \in chars THEN At(s, 1) ELSE "") \o keep_chars(Tail(s), chars)

\* str.isdigit()
isdigit(s) == s # "" /\ \A k \in 1..Len(s) : At(s, k) \in Digits

\* str.split(): the words of s, separated by runs of whitespace
RECURSIVE split_ws(_)
split_ws(s) ==
    LET t == lstrip(s, Whitespace)
        n == IF \E k \in 1..Len(t) : At(t, k) \in Whitespace
             THEN (CHOOSE k \in 1..Len(t) :
                      /\ At(t, k) \in Whitespace
                      /\ \A j \in 1..(k - 1) : At(t, j) \notin Whitespace) - 1
             ELSE Len(t)
    IN IF t = "" THEN <<>>
       ELSE <<SubSeq(t, 1, n)>> \o split_ws(SubSeq(t, n + 1, Len(t)))

----------------------------------------------------------------------------
(* Identity normalizers                                                    *)

PhonePunctuation == {"+", "-", " ", "(", ")"}

\* is_phone_number(name)
is_phone_number(name) ==
    IF name = "" THEN FALSE
    ELSE LET cleaned == remove_chars(name, PhonePunctuation)
         IN isdigit(cleaned) /\ Len(cleaned) >= 7

RECURSIVE squeeze_dashes(_)
\* one '-' for every run of '-'
squeeze_dashes(s) ==
    IF Len(s) < 2 THEN s
    ELSE IF At(s, 1) = "-" /\ At(s, 2) = "-" THEN squeeze_dashes(Tail(s))
    ELSE At(s, 1) \o squeeze_dashes(Tail(s))

RECURSIVE dash_non_alnum(_)
\* every character outside [a-z0-9] becomes '-'
dash_non_alnum(s) ==
    IF s = "" THEN ""
    ELSE (IF At(s, 1) \in SlugChars THEN At(s, 1) ELSE "-")
         \o dash_non_alnum(Tail(s))

\* every character outside [a-z0-9] replaced by its own '-'
slugify_char_by_char(name) ==
    rstrip(lstrip(dash_non_alnum(lower(name)), {"-"}), {"-"})

\* slugify(name) = re.sub(r'[^a-z0-9]+', '-', name.lower()).strip('-')
slugify(name) ==
    LET d == squeeze_dashes(dash_non_alnum(lower(name)))
    IN rstrip(lstrip(d, {"-"}), {"-"})

\* the punctuation of is_phone_number removed, the rest kept
normalize_phone_known_punctuation(raw) ==
    IF raw = "" THEN ""
    ELSE LET r == strip(raw)
             plus == IF startswith(r, "+") THEN "+" ELSE ""
             digits == remove_chars(r, PhonePunctuation)
         IN IF digits # "" THEN plus \o digits ELSE ""

\* normalize_phone(raw)
normalize_phone(raw) ==
    IF raw = "" THEN ""
    ELSE LET r == strip(raw)
             plus == IF startswith(r, "+") THEN "+" ELSE ""
             digits == keep_chars(r, Digits)
         IN IF digits # "" THEN plus \o digits ELSE ""

\* normalize_email(raw)
normalize_email(raw) == IF raw = "" THEN "" ELSE lower(strip(raw))

----------------------------------------------------------------------------
(* Timestamps: parse_dt_maybe and the datetime values it returns.          *)
(* A datetime is <<year, month, day, hour, minute, second>>; None is <<>>. *)
(* strptime is modelled on zero-padded fields, which is what the export    *)
(* writers emit; any other text fails to parse.                            *)

NoDate == <<>>

\* datetime.min = 0001-01-01 00:00:00
DatetimeMin == <<1, 1, 1, 0, 0, 0>>

DigitString == "0123456789"

digit_value(ch) == (CHOOSE k \in 1..10 : At(DigitString, k) = ch) - 1

RECURSIVE to_int(_)
\* int(s) for a string of digits
to_int(s) ==
    IF s = "" THEN 0
    ELSE 10 * to_int(SubSeq(s, 1, Len(s) - 1)) + digit_value(At(s, Len(s)))

is_leap(y) == (y % 4 = 0 /\ y % 100 # 0) \/ y % 400 = 0

days_in_month(y, m) ==
    IF m = 2 THEN (IF is_leap(y) THEN 29 ELSE 28)
    ELSE IF m \in {4, 6, 9, 11} THEN 30 ELSE 31

\* strptime(t, "%Y-%m-%d"): the date fields, or NoDate when t does not match
strptime_date(t) ==
    IF /\ Len(t) = 10
       /\ isdigit(SubSeq(t, 1, 4)) /\ At(t, 5) = "-"
       /\ isdigit(SubSeq(t, 6, 7)) /\ At(t, 8) = "-"
       /\ isdigit(SubSeq(t, 9, 10))
    THEN LET y == to_int(SubSeq(t, 1, 4))
             m == to_int(SubSeq(t, 6, 7))
             d == to_int(SubSeq(t, 9, 10))
         IN IF y >= 1 /\ m \in 1..12 /\ d >= 1 /\ d <= days_in_month(y, m)
            THEN <<y, m, d>> ELSE NoDate
    ELSE NoDate

\* strptime(t, " %H:%M") on the part after the date
strptime_hm(t) ==
    IF /\ Len(t) = 6 /\ At(t, 1) = " "
       /\ isdigit(SubSeq(t, 2, 3)) /\ At(t, 4) = ":"
       /\ isdigit(SubSeq(t, 5, 6))
       /\ to_int(SubSeq(t, 2, 3)) <= 23 /\ to_int(SubSeq(t, 5, 6)) <= 59
    THEN <<to_int(SubSeq(t, 2, 3)), to_int(SubSeq(t, 5, 6))>>
    ELSE NoDate

\* strptime(t, ":%S") on the part after the minutes
strptime_s(t) ==
    IF Len(t) = 3 /\ At(t, 1) = ":" /\ isdigit(SubSeq(t, 2, 3))
       /\ to_int(SubSeq(t, 2, 3)) <= 59
    THEN <<to_int(SubSeq(t, 2, 3))>>
    ELSE NoDate

\* s[:n] of Python
prefix(s, n) == SubSeq(s, 1, IF Len(s) < n THEN Len(s) ELSE n)

\* datetime.strptime(s[:n], fmt) for the three formats, NoDate on ValueError
try_format(s, n) ==
    LET t == prefix(s, n)
        d == strptime_date(prefix(t, 10))
        hm == strptime_hm(SubSeq(t, 11, 16))
        sec == strptime_s(SubSeq(t, 17, 19))
    IN IF Len(t) # n \/ d = NoDate THEN NoDate
       ELSE IF n = 10 THEN d \o <<0, 0, 0>>
       ELSE IF hm = NoDate THEN NoDate
       ELSE IF n = 16 THEN d \o hm \o <<0>>
       ELSE IF sec = NoDate THEN NoDate
       ELSE d \o hm \o sec

\* parse_dt_maybe(s)
parse_dt_maybe(s) ==
    IF s = "" THEN NoDate
    ELSE LET t == strip(s)
         IN IF try_format(t, 19) # NoDate THEN try_format(t, 19)
            ELSE IF try_format(t, 16) # NoDate THEN try_format(t, 16)
            ELSE try_format(t, 10)

RECURSIVE dt_less(_, _)
\* a < b for two datetimes
dt_less(a, b) ==
    IF a = <<>> THEN FALSE
    ELSE IF Head(a) # Head(b) THEN Head(a) < Head(b)
    ELSE dt_less(Tail(a), Tail(b))

----------------------------------------------------------------------------
(* Program constants                                                       *)

IMESSAGE_SYSTEM_MARKERS ==
    { "verification code", "one-time passcode", "we'll never ask you for it",
      "track your order", "estimated delivery window", "your order",
      "reply at http", "reply at https", "view at:", "sent a text blast",
      "support@", "noreply", "no-reply",
      "x$versiony$archivert$topx$objects", "nsattributedstring",
      "streamtyped@nsattributedstring" }

IMESSAGE_EXCLUDE_NAMES ==
    {"dad", "mom", "mum", "mother", "father", "grandma", "grandpa"}

----------------------------------------------------------------------------
(* Contact Directory: load_contacts_map and resolve_phone_to_name.         *)
(* An address-book database is [phones |-> rows, emails |-> rows], the     *)
(* rows its two queries return, each row [handle |-> .., name |-> ..].     *)

\* handle_to_name[k] = v
Put(m, k, v) == [x \in DOMAIN m \cup {k} |-> IF x = k THEN v ELSE m[x]]

EmptyMap == [x \in {} |-> ""]

\* a row registered as stored and stripped, not without its leading '+'
add_phone_row_two_variants(handle_to_name, row) ==
    LET phone == strip(row.handle)
        name == strip(row.name)
        normalized == remove_chars(phone, PhonePunctuation)
    IN IF phone # "" /\ name # "" /\ name # "Unknown"
       THEN Put(Put(handle_to_name, phone, name), normalized, name)
       ELSE handle_to_name

\* the three variants registered for one phone row
add_phone_row(handle_to_name, row) ==
    LET phone == strip(row.handle)
        name == strip(row.name)
        m1 == Put(handle_to_name, phone, name)
        m2 == IF startswith(phone, "+") THEN Put(m1, Tail(phone), name) ELSE m1
        normalized == remove_chars(phone, PhonePunctuation)
    IN IF phone # "" /\ name # "" /\ name # "Unknown"
       THEN Put(m2, normalized, name)
       ELSE handle_to_name

add_email_row(handle_to_name, row) ==
    LET email == lower(strip(row.handle))
        name == strip(row.name)
    IN IF email # "" /\ name # "" /\ name # "Unknown"
       THEN Put(handle_to_name, email, name)
       ELSE handle_to_name

RECURSIVE add_phone_rows(_, _)
add_phone_rows(handle_to_name, rows) ==
    IF rows = <<>> THEN handle_to_name
    ELSE add_phone_rows(add_phone_row(handle_to_name, Head(rows)), Tail(rows))

RECURSIVE add_email_rows(_, _)
add_email_rows(handle_to_name, rows) ==
    IF rows = <<>> THEN handle_to_name
    ELSE add_email_rows(add_email_row(handle_to_name, Head(rows)), Tail(rows))

RECURSIVE load_dbs(_, _)
\* the loop over all_dbs
load_dbs(handle_to_name, all_dbs) ==
    IF all_dbs = <<>> THEN handle_to_name
    ELSE LET db == Head(all_dbs)
         IN load_dbs(add_email_rows(add_phone_rows(handle_to_name, db.phones),
                                    db.emails),
                     Tail(all_dbs))

\* load_contacts_map()
load_contacts_map(all_dbs) == load_dbs(EmptyMap, all_dbs)

\* a lookup of the identifier as given only
resolve_phone_to_name_as_given(identifier, cmap) ==
    IF identifier = "" \/ ~startswith(identifier, "+") THEN ""
    ELSE IF identifier \in DOMAIN cmap THEN cmap[identifier] ELSE ""

\* resolve_phone_to_name(identifier, contacts_map); "" when nothing is found
resolve_phone_to_name(identifier, cmap) ==
    IF identifier = "" \/ ~startswith(identifier, "+") THEN ""
    ELSE IF identifier \in DOMAIN cmap THEN cmap[identifier]
    ELSE IF Tail(identifier) \in DOMAIN cmap THEN cmap[Tail(identifier)]
    ELSE LET normalized == remove_chars(identifier, PhonePunctuation)
         IN IF normalized \in DOMAIN cmap THEN cmap[normalized] ELSE ""

----------------------------------------------------------------------------
(* People-File index: parse_people_file and load_people_index.             *)
(* A people file is [stem, readable, title, name_fields, aliases, emails,  *)
(* phones]: its file name and what the regular expressions of              *)
(* parse_people_file, extract_emails and extract_phones find in its text.  *)

\* a parser that indexes the text of a file whatever read_text does
parse_people_file_reads_anyway(md) ==
    [slug |-> lower(md.stem),
     names |-> {n \in {strip(md.title)} \cup md.name_fields \cup md.aliases :
                   n # ""},
     emails |-> {normalize_email(e) : e \in md.emails},
     phones |-> {normalize_phone(ph) : ph \in md.phones} \ {""}]

\* parse_people_file(md_path)
parse_people_file(md) ==
    IF ~md.readable
    THEN [slug |-> lower(md.stem), names |-> {}, emails |-> {}, phones |-> {}]
    ELSE [slug |-> lower(md.stem),
          names |-> {n \in {strip(md.title)} \cup md.name_fields \cup md.aliases :
                        n # ""},
          emails |-> {normalize_email(e) : e \in md.emails},
          phones |-> {normalize_phone(m) : m \in md.phones} \ {""}]

\* load_people_index(repo_root): the four aggregate sets
load_people_index(people_dir) ==
    [slugs |-> {parse_people_file(md).slug : md \in people_dir},
     names |-> UNION {{slugify(n) : n \in parse_people_file(md).names} :
                         md \in people_dir},
     emails |-> UNION {parse_people_file(md).emails : md \in people_dir},
     phones |-> UNION {parse_people_file(md).phones : md \in people_dir}]

----------------------------------------------------------------------------
(* is_likely_system_imessage_contact                                       *)

RECURSIVE join_previews(_)
\* ' '.join((m.get('preview') or '') for m in recent)
join_previews(recent) ==
    IF recent = <<>> THEN ""
    ELSE IF Len(recent) = 1 THEN recent[1].preview
    ELSE recent[1].preview \o " " \o join_previews(Tail(recent))

has_system_marker(previews) ==
    \E marker \in IMESSAGE_SYSTEM_MARKERS : contains(previews, marker)

\* the previews searched without lower()
is_likely_system_imessage_contact_no_lower(contact) ==
    LET name == strip(contact.name)
        identifier == strip(contact.identifier)
        probe == IF name # "" THEN name ELSE identifier
        previews == join_previews(contact.recent)
    IN \/ (isdigit(probe) /\ Len(probe) \in 4..6)
       \/ lower(name) \in {"unknown", "identifier"}
       \/ has_system_marker(previews)

\* is_likely_system_imessage_contact(contact)
is_likely_system_imessage_contact(contact) ==
    LET name == strip(contact.name)
        identifier == strip(contact.identifier)
        probe == IF name # "" THEN name ELSE identifier
        previews == lower(join_previews(contact.recent))
    IN \/ (isdigit(probe) /\ Len(probe) \in 4..6)
       \/ lower(name) \in {"unknown", "identifier"}
       \/ has_system_marker(previews)
       \/ /\ startswith(name, "+") \/ startswith(identifier, "+")
          /\ has_system_marker(previews)

----------------------------------------------------------------------------
(* State                                                                   *)

VARIABLES
    people,                    \* the files of people/ (hand-edited between runs)
    address_book,              \* the AddressBook databases, in load order
    now,                       \* the wall clock, in minutes
    imessage_contacts,         \* the observed contacts of the parsed export
    pc,                        \* position of main
    existing_slugs, existing_names, existing_emails, existing_phones,
    contacts_map,
    i,                         \* the contact the loop is at (1-based)
    named_candidates,          \* positions in imessage_contacts, in list order
    unknown_number_candidates,
    seen_unknown_numbers,
    label,                     \* per contact: the branch that ended its iteration
    candidates_report,         \* what is written to NEW_PEOPLE_CANDIDATES.md
    im_candidates,             \* generate_outreach_drafts_report's list
    outreach_report,           \* the iMessage drafts of OUTREACH_DRAFTS.md
    run,                       \* number of the current run of main
    previous,                  \* what the run before left: its reports and inputs
    chat_db,                   \* the Messages database file at args.db
    dump_pc,                   \* position of imessage_dump.main
    db_index,                  \* the database the loop over all_dbs is at
    handle_to_name,            \* the table load_contacts_mapping is building
    conn,                      \* the local conn: a file, or NoConn
    connections,               \* the connections that are open
    connected_files,           \* every file a connection was opened on
    tmp_files,                 \* the copies made in the temporary directory
    raw_contacts,              \* the dicts a caller passes as imessage_contacts
    sync_dir_exists,           \* whether the directory named by args.sync_dir exists
    imessages_md,              \* the file imessages.md of the sync directory
    emails_received,           \* the file emails_received.md
    imessage_report,           \* what is written to IMESSAGE_CONTACTS.md
    platform_section,          \* what is appended to NEW_PEOPLE_CANDIDATES.md
    exit_status,               \* -1 while main runs, then its exit status
    fn,                        \* the pure function that is called on its own
    args,                      \* the strings it is called on
    results,                   \* what it returned, call after call
    argv,                      \* the flags of the command line of a script
    tool_pc,                   \* where the main of that script is
    status,                    \* -1 while it runs, then what main returns
    stdin_emails,              \* targeted_cleanup: the emails read from stdin
    to_delete,                 \* targeted_cleanup: the emails should_delete picks
    to_keep,                   \* targeted_cleanup: the other emails
    jxa_calls,                 \* the id lists jxa_delete_by_ids was called with
    md_files,                  \* standardize_action_items: the markdown files
    audits,                    \* standardize_action_items: the FileAudit list
    written,                   \* the files it wrote, with the lines written
    history,                   \* slack_dump: the result pages of the channel
    limit,                     \* slack_dump: the limit fetch_messages is given
    cursor,                    \* slack_dump: the cursor of the next request
    slack_messages             \* slack_dump: the messages fetched so far

vars == <<people, address_book, now, imessage_contacts, pc, existing_slugs,
          existing_names, existing_emails, existing_phones, contacts_map, i,
          named_candidates, unknown_number_candidates, seen_unknown_numbers,
          label, candidates_report, im_candidates, outreach_report, run,
          previous, chat_db, dump_pc, db_index, handle_to_name, conn,
          connections, connected_files, tmp_files, raw_contacts,
          sync_dir_exists, imessages_md, emails_received, imessage_report,
          platform_section, exit_status, fn, args, results, argv, tool_pc,
          status, stdin_emails, to_delete, to_keep, jxa_calls, md_files,
          audits, written, history, limit, cursor,
          slack_messages>>

environment == <<people, address_book>>

index_vars == <<existing_slugs, existing_names, existing_emails,
                existing_phones, contacts_map>>

candidate_vars == <<named_candidates, unknown_number_candidates,
                    seen_unknown_numbers, label, candidates_report>>

outreach_vars == <<im_candidates, outreach_report>>

db_vars == <<chat_db, dump_pc, db_index, handle_to_name, conn, connections,
             connected_files, tmp_files>>

call_vars == <<fn, args, results>>

cli_vars == <<argv, tool_pc, status>>

cleanup_vars == <<stdin_emails, to_delete, to_keep, jxa_calls>>

standardize_vars == <<md_files, audits, written>>

slack_vars == <<history, limit, cursor, slack_messages>>

tool_vars == <<call_vars, cli_vars, cleanup_vars, standardize_vars, slack_vars>>

sync_vars == <<raw_contacts, sync_dir_exists, imessages_md, emails_received,
               imessage_report, exit_status>>

\* the state of a run of process_daily_sync
daily_sync_vars ==
    <<now, imessage_contacts, pc, index_vars, i, candidate_vars, outreach_vars,
      run, previous, sync_vars, platform_section>>

----------------------------------------------------------------------------
(* The candidate resolver: one iteration of the loop of                    *)
(* generate_new_people_candidates_report                                   *)

\* step 1: the name after the Contact Directory lookup, "" when none is made
step1_resolved(c, cmap) ==
    LET name == strip(c.name)
    IN IF is_phone_number(name) \/ name = ""
       THEN resolve_phone_to_name(strip(c.identifier), cmap)
       ELSE ""

\* the comparison without lower()
is_excluded_name_case_sensitive(name) == name \in IMESSAGE_EXCLUDE_NAMES

\* name.lower() in IMESSAGE_EXCLUDE_NAMES
is_excluded_name(name) == lower(name) \in IMESSAGE_EXCLUDE_NAMES

\* identifier_email and identifier_email in existing_emails
known_by_identifier_email(identifier, emails) ==
    LET identifier_email ==
            IF contains(identifier, "@") THEN normalize_email(identifier) ELSE ""
    IN identifier_email # "" /\ identifier_email \in emails

\* norm_phone of the phone match
norm_phone(name, identifier) ==
    IF startswith(identifier, "+") THEN normalize_phone(identifier)
    ELSE IF startswith(name, "+") THEN normalize_phone(name)
    ELSE ""

\* the identifier looked up as written
known_by_phone_raw(name, identifier, phones) == identifier \in phones

\* norm_phone and norm_phone in existing_phones
known_by_phone(name, identifier, phones) ==
    norm_phone(name, identifier) # "" /\ norm_phone(name, identifier) \in phones

\* name and not is_phone_number(name) and '@' not in name
is_real_name(name) ==
    name # "" /\ ~is_phone_number(name) /\ ~contains(name, "@")

\* the name compared as written, without slugify
known_by_slug_as_written(name, slugs, names) ==
    is_real_name(name) /\ name \in (slugs \cup names)

\* the full-name slug match
known_by_slug(name, slugs, names) ==
    is_real_name(name) /\ slugify(name) \in (slugs \cup names)

\* the first-word + last-word slug match
known_by_first_last(name, slugs, names) ==
    LET parts == split_ws(name)
    IN /\ is_real_name(name)
       /\ Len(parts) >= 2
       /\ slugify(parts[1] \o " " \o parts[Len(parts)]) \in (slugs \cup names)

\* '@' in name and normalize_email(name) in existing_emails
known_by_name_email(name, emails) ==
    contains(name, "@") /\ normalize_email(name) \in emails

\* deduplication by the raw string
unknown_number_raw(name, identifier) ==
    IF startswith(identifier, "+") THEN identifier ELSE name

\* the number an unknown contact is deduplicated by
unknown_number(name, identifier) ==
    normalize_phone(IF startswith(identifier, "+") THEN identifier ELSE name)

\* the identifier tested by its shape and not by its leading '+'
is_phone_contact_by_shape(name, identifier) ==
    is_phone_number(identifier) \/ is_phone_number(name)

\* identifier.startswith('+') or is_phone_number(name)
is_phone_contact(name, identifier) ==
    startswith(identifier, "+") \/ is_phone_number(name)

KnownLabels == {"known_email", "known_phone", "known_slug", "known_first_last",
                "known_name_email"}

NamedLabels == {"named", "named_email", "named_resolved"}

DroppedLabels == {"duplicate_number", "no_number", "no_branch"}

\* steps 2 to 5 for a contact whose name after step 1 is `name`: the branch
\* that ends the iteration
classify(c, name, seen, slugs, names, emails, phones, cmap) ==
    LET identifier == strip(c.identifier)
        num == unknown_number(name, identifier)
    IN IF is_excluded_name(name) THEN "excluded"
       ELSE IF is_likely_system_imessage_contact(c) THEN "system"
       ELSE IF known_by_identifier_email(identifier, emails) THEN "known_email"
       ELSE IF known_by_phone(name, identifier, phones) THEN "known_phone"
       ELSE IF known_by_slug(name, slugs, names) THEN "known_slug"
       ELSE IF known_by_first_last(name, slugs, names) THEN "known_first_last"
       ELSE IF known_by_name_email(name, emails) THEN "known_name_email"
       ELSE IF is_real_name(name) THEN "named"
       ELSE IF /\ contains(identifier, "@")
               /\ normalize_email(identifier) \notin emails THEN "named_email"
       ELSE IF is_phone_contact(name, identifier)
       THEN (IF num = "" THEN "no_number"
             ELSE IF num \in seen THEN "duplicate_number"
             ELSE IF resolve_phone_to_name(identifier, cmap) # ""
             THEN "named_resolved"
             ELSE "unknown_number")
       ELSE "no_branch"

\* a loop whose last step lists every contact that reaches its end
goes_to_named_or_falls_through(outcome) ==
    outcome \in NamedLabels \cup {"no_branch"}

\* named_candidates.append(c) is reached
goes_to_named(outcome) == outcome \in NamedLabels

\* the append to the unknown list outside its else branch
goes_to_unknown_without_else(outcome) ==
    outcome \in {"unknown_number", "named_resolved"}

\* unknown_number_candidates.append(c) is reached
goes_to_unknown(outcome) == outcome = "unknown_number"

----------------------------------------------------------------------------
(* Sorting and the report files                                            *)

\* sort_key(c) = parse_dt_maybe(c.get('last_msg') or '') or datetime.min
sort_key(c) ==
    IF parse_dt_maybe(c.last_msg) = NoDate THEN DatetimeMin
    ELSE parse_dt_maybe(c.last_msg)

RECURSIVE insert_by_key_unstable(_, _, _)
\* t goes before the first entry whose key is not greater than its own
insert_by_key_unstable(sorted, t, contacts) ==
    IF sorted = <<>> THEN <<t>>
    ELSE IF ~dt_less(sort_key(contacts[t]), sort_key(contacts[Head(sorted)]))
    THEN <<t>> \o sorted
    ELSE <<Head(sorted)>> \o insert_by_key_unstable(Tail(sorted), t, contacts)

RECURSIVE insert_by_key(_, _, _)
\* t goes before the first entry whose key is smaller than its own
insert_by_key(sorted, t, contacts) ==
    IF sorted = <<>> THEN <<t>>
    ELSE IF dt_less(sort_key(contacts[Head(sorted)]), sort_key(contacts[t]))
    THEN <<t>> \o sorted
    ELSE <<Head(sorted)>> \o insert_by_key(Tail(sorted), t, contacts)

RECURSIVE sort_by_last_msg(_, _)
\* list.sort(key=sort_key, reverse=True): descending and stable
sort_by_last_msg(list, contacts) ==
    IF list = <<>> THEN <<>>
    ELSE insert_by_key(sort_by_last_msg(SubSeq(list, 1, Len(list) - 1), contacts),
                       list[Len(list)], contacts)

\* the characters of the model's strings in code-point order
CodePoints ==
    "\t\n !" \o "\"" \o "#$%&'()*+,-./0123456789:;<=>?@" \o UpperAlpha
    \o "[" \o "\\" \o "]^_" \o LowerAlpha \o "{|}~"

ord(ch) == CHOOSE k \in 1..Len(CodePoints) : At(CodePoints, k) = ch

RECURSIVE str_less(_, _)
\* a < b for two strings
str_less(a, b) ==
    IF b = "" THEN FALSE
    ELSE IF a = "" THEN TRUE
    ELSE IF At(a, 1) # At(b, 1) THEN ord(At(a, 1)) < ord(At(b, 1))
    ELSE str_less(Tail(a), Tail(b))

RECURSIVE insert_by_string(_, _, _)
insert_by_string(sorted, t, contacts) ==
    IF sorted = <<>> THEN <<t>>
    ELSE IF str_less(contacts[Head(sorted)].last_msg, contacts[t].last_msg)
    THEN <<t>> \o sorted
    ELSE <<Head(sorted)>> \o insert_by_string(Tail(sorted), t, contacts)

RECURSIVE sorted_by_string(_, _)
\* sorted(im_candidates, key=lambda x: x.get('last_msg') or '', reverse=True)
sorted_by_string(list, contacts) ==
    IF list = <<>> THEN <<>>
    ELSE insert_by_string(sorted_by_string(SubSeq(list, 1, Len(list) - 1), contacts),
                          list[Len(list)], contacts)

\* recent[-n:]
last_n(recent, n) ==
    IF Len(recent) <= n THEN recent
    ELSE SubSeq(recent, Len(recent) - n + 1, Len(recent))

\* a or b for two strings
str_or(a, b) == IF a # "" THEN a ELSE b

UnknownReportCap == 50

NamedPreviews == 3

UnknownPreviews == 2

DraftCap == 25

\* one "- **display_name**" entry of the named section
named_entry(c) ==
    [display_name |-> str_or(c.resolved_name, str_or(c.name, c.identifier)),
     identifier |-> c.identifier,
     last_msg |-> c.last_msg,
     previews |-> last_n(c.recent, NamedPreviews)]

\* one entry of the unknown-number section
unknown_entry(c) ==
    [display |-> str_or(c.identifier, c.name),
     last_msg |-> c.last_msg,
     previews |-> last_n(c.recent, UnknownPreviews)]

\* a report whose entries give the age of the last message at writing time
write_candidates_report_with_age(named, unknown, contacts, clock) ==
    [generated |-> clock,
     named_count |-> Len(named),
     unknown_count |-> Len(unknown),
     named |-> [k \in 1..Len(named) |->
                   [named_entry(contacts[named[k]]) EXCEPT
                       !.last_msg = <<contacts[named[k]].last_msg, clock>>]],
     unknown |-> [k \in 1..Len(unknown) |->
                     [unknown_entry(contacts[unknown[k]]) EXCEPT
                         !.last_msg = <<contacts[unknown[k]].last_msg, clock>>]],
     more |-> 0]

\* the text written to output_path, section by section
write_candidates_report(named, unknown, contacts, clock) ==
    [generated |-> clock,
     named_count |-> Len(named),
     unknown_count |-> Len(unknown),
     named |-> [k \in 1..Len(named) |-> named_entry(contacts[named[k]])],
     unknown |-> [k \in 1..(IF Len(unknown) > UnknownReportCap
                            THEN UnknownReportCap ELSE Len(unknown)) |->
                     unknown_entry(contacts[unknown[k]])],
     more |-> IF Len(unknown) > UnknownReportCap
              THEN Len(unknown) - UnknownReportCap ELSE 0]

\* one "### name" draft of the iMessage drafts section
draft_entry(c) ==
    LET name == str_or(c.resolved_name, strip(c.name))
    IN [name |-> name,
        to |-> strip(c.identifier),
        last_seen |-> c.last_msg,
        first |-> IF split_ws(name) # <<>> THEN split_ws(name)[1] ELSE name]

write_outreach_report(candidates, contacts, clock) ==
    LET ordered == sorted_by_string(candidates, contacts)
    IN [generated |-> clock,
        drafts |-> [k \in 1..(IF Len(ordered) > DraftCap THEN DraftCap
                              ELSE Len(ordered)) |->
                       draft_entry(contacts[ordered[k]])]]

NoReport == [generated |-> -1]

----------------------------------------------------------------------------
(* Inputs                                                                  *)

MaxContacts == 2

\* an observed contact as parse_imessage_export builds it
Contact(name, identifier, last_msg, previews) ==
    [name |-> name, identifier |-> identifier, last_msg |-> last_msg,
     recent |-> [k \in 1..Len(previews) |-> [preview |-> previews[k]]],
     resolved_name |-> ""]

ContactPool ==
    { Contact(" Mom ", "+14155550101", "2025-01-03", <<>>),
      Contact("", "+14155550102", "2025-01-04 09:00", <<"call me", "ok">>),
      Contact("Al", "+14155550103", "2025-01-05",
              <<"Your Verification Code: 1">>),
      Contact("", "4155551234", "", <<>>),
      Contact("", "+1 (415) 555-1234", "2025-01-05", <<>>),
      Contact("", "14155551234", "2025-01-05", <<>>),
      Contact("", "+14155551234", "soon", <<>>),
      Contact("Jane Doe", "+14155551234", "2025-01-01", <<"hi">>),
      Contact("Bob Lee Roy", "Bob@X.io", "0001-01-01", <<>>),
      Contact("", "bob@x.io", "2025-01-05 10:30:15", <<>>),
      Contact("+14155551234", "chat7", "2025-01-05 10:30", <<>>),
      Contact("jane@x.io", "+14155551234", "2025-01-02", <<>>) }

Exports == UNION {[1..n -> ContactPool] : n \in 0..MaxContacts}

PersonFile(stem, readable, title, emails, phones) ==
    [stem |-> stem, readable |-> readable, title |-> title, name_fields |-> {},
     aliases |-> {}, emails |-> emails, phones |-> phones]

PeopleFiles ==
    { PersonFile("jane-doe", TRUE, "Jane Doe", {}, {"+1 (415) 555-1234"}),
      PersonFile("Bob-Roy", TRUE, "Bob Roy", {"Bob@x.io"}, {}) }

PeopleDirs == SUBSET PeopleFiles

Row(handle, name) == [handle |-> handle, name |-> name]

AddressBooks ==
    { <<>>,
      << [phones |-> << Row("+1 (415) 555-0102", "Mom"),
                        Row("+1 (415) 555-1234", "Jane Doe"),
                        Row("+1 (415) 555-0105", "Bob Roy") >>,
          emails |-> << Row("Bob@x.io", "Bob Roy") >>] >> }

----------------------------------------------------------------------------
(* Initial state: main is about to run on a parsed export                  *)

NoPrevious == [run |-> 0]

\* no connection
NoConn == <<>>

\* Python's None, where a value may be missing
None == <<>>

\* no function is called on its own
NoCall ==
    /\ fn = ""
    /\ args = <<>>
    /\ results = <<>>

NoFlags == [dry_run |-> FALSE]

\* no script is at its command line
NoCli ==
    /\ argv = NoFlags
    /\ tool_pc = "idle"
    /\ status = -1

\* targeted_cleanup has read nothing
NoCleanup ==
    /\ stdin_emails = <<>>
    /\ to_delete = <<>>
    /\ to_keep = <<>>
    /\ jxa_calls = <<>>

\* standardize_action_items has scanned nothing
NoStandardize ==
    /\ md_files = <<>>
    /\ audits = <<>>
    /\ written = <<>>

\* slack_dump has fetched nothing
NoSlack ==
    /\ history = <<>>
    /\ limit = 0
    /\ cursor = None
    /\ slack_messages = <<>>

\* no other script is running
ToolsIdle == NoCall /\ NoCli /\ NoCleanup /\ NoStandardize /\ NoSlack

\* imessage_dump has not been started
DumpIdle ==
    /\ dump_pc = "start"
    /\ db_index = 1
    /\ handle_to_name = EmptyMap
    /\ conn = NoConn
    /\ connections = {}
    /\ connected_files = {}
    /\ tmp_files = {}

\* a file that does not exist
NoFile == [exists |-> FALSE]

\* the resolver is given a parsed list: the files of the sync directory
\* play no part
SyncIdle ==
    /\ raw_contacts = <<>>
    /\ sync_dir_exists = TRUE
    /\ imessages_md = NoFile
    /\ emails_received = NoFile
    /\ imessage_report = NoReport
    /\ platform_section = <<>>
    /\ exit_status = -1

Fresh ==
    /\ chat_db = [exists |-> FALSE]
    /\ DumpIdle
    /\ SyncIdle
    /\ now = 0
    /\ pc = "start"
    /\ existing_slugs = {} /\ existing_names = {}
    /\ existing_emails = {} /\ existing_phones = {}
    /\ contacts_map = EmptyMap
    /\ i = 1
    /\ named_candidates = <<>>
    /\ unknown_number_candidates = <<>>
    /\ seen_unknown_numbers = {}
    /\ label = <<>>
    /\ candidates_report = NoReport
    /\ im_candidates = <<>>
    /\ outreach_report = NoReport
    /\ run = 1
    /\ previous = NoPrevious

Init ==
    /\ imessage_contacts \in Exports
    /\ people \in PeopleDirs
    /\ address_book \in AddressBooks
    /\ Fresh
    /\ ToolsIdle

----------------------------------------------------------------------------
(* generate_new_people_candidates_report                                   *)

\* entry: the index and the directory are loaded, the lists start empty
Load ==
    /\ pc = "start"
    /\ LET idx == load_people_index(people)
       IN /\ existing_slugs' = idx.slugs
          /\ existing_names' = idx.names
          /\ existing_emails' = idx.emails
          /\ existing_phones' = idx.phones
    /\ contacts_map' = load_contacts_map(address_book)
    /\ named_candidates' = <<>>
    /\ unknown_number_candidates' = <<>>
    /\ seen_unknown_numbers' = {}
    /\ label' = <<>>
    /\ i' = 1
    /\ pc' = "classify"
    /\ UNCHANGED <<tool_vars, db_vars, sync_vars, platform_section,
                   environment, now, imessage_contacts, candidates_report,
                   outreach_vars, run, previous>>

\* one iteration of `for c in imessage_contacts`
Step ==
    /\ pc = "classify"
    /\ i <= Len(imessage_contacts)
    /\ LET c == imessage_contacts[i]
           resolved == step1_resolved(c, contacts_map)
           name == IF resolved # "" THEN resolved ELSE strip(c.name)
           c1 == IF resolved # "" THEN [c EXCEPT !.resolved_name = name] ELSE c
           outcome == classify(c1, name, seen_unknown_numbers, existing_slugs,
                               existing_names, existing_emails, existing_phones,
                               contacts_map)
           c2 == IF outcome = "named_resolved"
                 THEN [c1 EXCEPT !.resolved_name =
                          resolve_phone_to_name(strip(c.identifier), contacts_map)]
                 ELSE c1
       IN /\ imessage_contacts' = [imessage_contacts EXCEPT ![i] = c2]
          /\ label' = Append(label, outcome)
          /\ named_candidates' =
                IF goes_to_named(outcome) THEN Append(named_candidates, i)
                ELSE named_candidates
          /\ unknown_number_candidates' =
                IF goes_to_unknown(outcome)
                THEN Append(unknown_number_candidates, i)
                ELSE unknown_number_candidates
          /\ seen_unknown_numbers' =
                IF goes_to_unknown(outcome)
                THEN seen_unknown_numbers \cup
                        {unknown_number(name, strip(c.identifier))}
                ELSE seen_unknown_numbers
    /\ i' = i + 1
    /\ UNCHANGED <<tool_vars, db_vars, sync_vars, platform_section,
                   environment, now, pc, index_vars, candidates_report,
                   outreach_vars, run, previous>>

\* after the loop: both lists are sorted and the report is written
SortAndWrite ==
    /\ pc = "classify"
    /\ i > Len(imessage_contacts)
    /\ named_candidates' = sort_by_last_msg(named_candidates, imessage_contacts)
    /\ unknown_number_candidates' =
          sort_by_last_msg(unknown_number_candidates, imessage_contacts)
    /\ candidates_report' =
          write_candidates_report(named_candidates', unknown_number_candidates',
                                  imessage_contacts, now)
    /\ platform_section' = <<>>
    /\ pc' = "emails"
    /\ UNCHANGED <<tool_vars, db_vars, sync_vars, environment, now, imessage_contacts,
                   index_vars, i, seen_unknown_numbers, label, outreach_vars,
                   run, previous>>

PlatformCap == 25

\* main, after the reports of the other exports: the platform-mediated
\* candidates of emails_received.md are appended to NEW_PEOPLE_CANDIDATES.md
\* when that file exists
AugmentCandidates ==
    /\ pc = "emails"
    /\ platform_section' =
          IF /\ emails_received.exists
             /\ emails_received.platform # <<>>
             /\ candidates_report # NoReport
          THEN Append(platform_section,
                      SubSeq(emails_received.platform, 1,
                             IF Len(emails_received.platform) < PlatformCap
                             THEN Len(emails_received.platform)
                             ELSE PlatformCap))
          ELSE platform_section
    /\ pc' = "outreach"
    /\ UNCHANGED <<tool_vars, db_vars, sync_vars, environment, now, imessage_contacts,
                   index_vars, i, candidate_vars, outreach_vars, run, previous>>

----------------------------------------------------------------------------
(* generate_outreach_drafts_report: the iMessage drafts                    *)

\* the name a contact is drafted under, "" when the loop skips it
outreach_name(c, slugs, names, emails, phones, cmap) ==
    LET name0 == strip(c.name)
        identifier == strip(c.identifier)
        lookup == name0 = "" \/ is_phone_number(name0)
        name == IF lookup THEN resolve_phone_to_name(identifier, cmap) ELSE name0
    IN IF ~(startswith(identifier, "+") \/ contains(identifier, "@")) THEN ""
       ELSE IF name = "" THEN ""
       ELSE IF is_excluded_name(name) THEN ""
       ELSE IF is_likely_system_imessage_contact(c) THEN ""
       ELSE IF startswith(identifier, "+") /\ normalize_phone(identifier) \in phones
       THEN ""
       ELSE IF contains(identifier, "@") /\ normalize_email(identifier) \in emails
       THEN ""
       ELSE IF slugify(name) \in (slugs \cup names) THEN ""
       ELSE name

\* entry: the index and the directory are loaded again
OutreachLoad ==
    /\ pc = "outreach"
    /\ LET idx == load_people_index(people)
       IN /\ existing_slugs' = idx.slugs
          /\ existing_names' = idx.names
          /\ existing_emails' = idx.emails
          /\ existing_phones' = idx.phones
    /\ contacts_map' = load_contacts_map(address_book)
    /\ im_candidates' = <<>>
    /\ i' = 1
    /\ pc' = "drafts"
    /\ UNCHANGED <<tool_vars, db_vars, sync_vars, platform_section,
                   environment, now, imessage_contacts, candidate_vars,
                   outreach_report, run, previous>>

\* one iteration of `for c in imessage_contacts or []`
OutreachStep ==
    /\ pc = "drafts"
    /\ i <= Len(imessage_contacts)
    /\ LET c == imessage_contacts[i]
           name == outreach_name(c, existing_slugs, existing_names,
                                 existing_emails, existing_phones, contacts_map)
       IN IF name = ""
          THEN UNCHANGED <<imessage_contacts, im_candidates>>
          ELSE /\ imessage_contacts' =
                     [imessage_contacts EXCEPT ![i].resolved_name = name]
               /\ im_candidates' = Append(im_candidates, i)
    /\ i' = i + 1
    /\ UNCHANGED <<tool_vars, db_vars, sync_vars, platform_section,
                   environment, now, pc, index_vars, candidate_vars,
                   outreach_report, run, previous>>

\* after the loop: the drafts are written, main ends
OutreachWrite ==
    /\ pc = "drafts"
    /\ i > Len(imessage_contacts)
    /\ outreach_report' = write_outreach_report(im_candidates, imessage_contacts, now)
    /\ pc' = "done"
    /\ UNCHANGED <<tool_vars, db_vars, sync_vars, platform_section,
                   environment, now, imessage_contacts, index_vars, i,
                   candidate_vars, im_candidates, run, previous>>

Next ==
    \/ Load \/ Step \/ SortAndWrite \/ AugmentCandidates
    \/ OutreachLoad \/ OutreachStep \/ OutreachWrite

Spec == Init /\ [][Next]_vars

----------------------------------------------------------------------------
(* Repeated runs of main on the same export: the user edits people/        *)
(* between runs and the clock advances. A run re-parses the export, so     *)
(* nothing a run stored in its contacts reaches the next run.              *)

MaxRuns == 2

MaxClock == 1

RunPool ==
    { Contact("", "+1 (415) 555-1234", "2025-01-05", <<>>),
      Contact("", "+14155551234", "soon", <<>>),
      Contact("Bob Lee Roy", "Bob@X.io", "0001-01-01", <<>>),
      Contact("", "bob@x.io", "2025-01-05 10:30:15", <<>>) }

RunExports == UNION {[1..n -> RunPool] : n \in 0..MaxContacts}

InitRuns ==
    /\ imessage_contacts \in RunExports
    /\ people \in PeopleDirs
    /\ address_book \in AddressBooks
    /\ Fresh
    /\ ToolsIdle

\* main is started again: parse_imessage_export builds the contacts anew
Rerun ==
    /\ pc = "done"
    /\ run < MaxRuns
    /\ previous' = [run |-> run,
                    people |-> people,
                    address_book |-> address_book,
                    named_candidates |-> named_candidates,
                    unknown_number_candidates |-> unknown_number_candidates,
                    candidates_report |-> candidates_report]
    /\ run' = run + 1
    /\ imessage_contacts' =
          [k \in 1..Len(imessage_contacts) |->
              [imessage_contacts[k] EXCEPT !.resolved_name = ""]]
    /\ pc' = "start"
    /\ UNCHANGED <<tool_vars, db_vars, sync_vars, platform_section,
                   environment, now, index_vars, i, candidate_vars, outreach_vars>>

\* before the next run starts the user adds a file to people/
AddPeopleFile ==
    /\ pc = "start"
    /\ previous.run > 0
    /\ \E md \in PeopleFiles \ people : people' = people \cup {md}
    /\ UNCHANGED <<tool_vars, db_vars, sync_vars, platform_section,
                   address_book, now, imessage_contacts, pc, index_vars, i,
                   candidate_vars, outreach_vars, run, previous>>

\* before the next run starts the clock reaches the next minute
Tick ==
    /\ pc = "start"
    /\ previous.run > 0
    /\ now < MaxClock
    /\ now' = now + 1
    /\ UNCHANGED <<tool_vars, db_vars, sync_vars, platform_section,
                   environment, imessage_contacts, pc, index_vars, i,
                   candidate_vars, outreach_vars, run, previous>>

NextRuns == Next \/ Rerun \/ AddPeopleFile \/ Tick

SpecRuns == InitRuns /\ [][NextRuns]_vars

----------------------------------------------------------------------------
(* Exports whose contacts carry a phone number in the name, a short code   *)
(* or a literal placeholder in either field, a number written without its  *)
(* leading '+', or an address in the name                                  *)

EdgePool ==
    { Contact("+14155551234", "+14155550199", "2025-01-05", <<>>),
      Contact("+14155550199", "+14155551234", "2025-01-04", <<>>),
      Contact("Al", "12345", "2025-01-03", <<"hi">>),
      Contact("", "12345", "2025-01-03", <<>>),
      Contact("Al", "Unknown", "2025-01-02", <<>>),
      Contact("identifier", "+14155550199", "2025-01-02", <<>>),
      Contact("", "14155551234", "2025-01-05", <<>>),
      Contact("", "+1 (415) 555-1234", "2025-01-05", <<>>),
      Contact("jane@doe", "+14155550105", "2025-01-02", <<>>) }

EdgeExports == UNION {[1..n -> EdgePool] : n \in 0..MaxContacts}

\* a file of people/ whose read_text raises
UnreadableFile ==
    [PersonFile("Al", TRUE, "Al", {"al@x.io"}, {"+1 415 555 0199"})
        EXCEPT !.readable = FALSE]

EdgePeopleDirs == SUBSET (PeopleFiles \cup {UnreadableFile})

InitEdge ==
    /\ imessage_contacts \in EdgeExports
    /\ people \in EdgePeopleDirs
    /\ address_book \in AddressBooks
    /\ Fresh
    /\ ToolsIdle

SpecEdge == InitEdge /\ [][Next]_vars

----------------------------------------------------------------------------
(* generate_new_people_candidates_report called with dicts of any shape.   *)
(* A dict is a function from the keys it has to their values; a value is   *)
(* None, <<>>, or <<v>> for the string or list v. A message of 'recent' is *)
(* a dict with or without the key 'preview'.                               *)

\* d.get(key)
dict_get(d, key) == IF key \in DOMAIN d THEN d[key] ELSE None

\* the value handed on as it is
or_default_missing(v, default) == v

\* v or default, for a None, '' or [] v
or_default(v, default) ==
    IF v = None THEN <<default>>
    ELSE IF Len(v[1]) = 0 THEN <<default>> ELSE v

\* a string method or an iteration on None raises
raises(v) == v = None

\* the reads the loop, the heuristic and the sort key make of one contact
field_reads(c) ==
    [name |-> or_default(dict_get(c, "name"), ""),
     identifier |-> or_default(dict_get(c, "identifier"), ""),
     last_msg |-> or_default(dict_get(c, "last_msg"), ""),
     recent |-> or_default(dict_get(c, "recent"), <<>>)]

\* the reads the heuristic makes of the messages of 'recent'
preview_reads(c) ==
    LET recent == field_reads(c).recent
    IN IF raises(recent) THEN <<>>
       ELSE [k \in 1..Len(recent[1]) |->
                or_default(dict_get(recent[1][k], "preview"), "")]

\* a read of the contact raises
read_raises(c) ==
    \/ \E key \in {"name", "identifier", "last_msg", "recent"} :
          raises(field_reads(c)[key])
    \/ \E k \in 1..Len(preview_reads(c)) : raises(preview_reads(c)[k])

\* the contact as the loop sees it through its reads
contact_read(c) ==
    [name |-> field_reads(c).name[1],
     identifier |-> field_reads(c).identifier[1],
     last_msg |-> field_reads(c).last_msg[1],
     recent |-> [k \in 1..Len(preview_reads(c)) |->
                    [preview |-> preview_reads(c)[k][1]]],
     resolved_name |-> ""]

Message(preview) == [key \in {"preview"} |-> preview]

RawPool ==
    { [key \in {} |-> None],
      [name |-> None, identifier |-> <<"+14155550199">>, last_msg |-> None,
       recent |-> None],
      [name |-> <<"Zed">>, last_msg |-> <<"">>,
       recent |-> << << Message(None), [key \in {} |-> None],
                        Message(<<"hi">>) >> >>],
      [name |-> <<"">>, identifier |-> <<"bob@x.io">>,
       last_msg |-> <<"2025-01-05">>, recent |-> << <<>> >>],
      [identifier |-> <<"+14155551234">>],
      [name |-> <<"Jane Doe">>, identifier |-> <<"+14155551234">>,
       last_msg |-> <<"2025-01-01">>, recent |-> << << Message(<<"hi">>) >> >>] }

RawExports == UNION {[1..n -> RawPool] : n \in 0..MaxContacts}

InitRaw ==
    /\ raw_contacts \in RawExports
    /\ imessage_contacts = <<>>
    /\ people \in PeopleDirs
    /\ address_book \in AddressBooks
    /\ now = 0
    /\ pc = "call"
    /\ existing_slugs = {} /\ existing_names = {}
    /\ existing_emails = {} /\ existing_phones = {}
    /\ contacts_map = EmptyMap
    /\ i = 1
    /\ named_candidates = <<>>
    /\ unknown_number_candidates = <<>>
    /\ seen_unknown_numbers = {}
    /\ label = <<>>
    /\ candidates_report = NoReport
    /\ im_candidates = <<>>
    /\ outreach_report = NoReport
    /\ run = 1
    /\ previous = NoPrevious
    /\ chat_db = [exists |-> FALSE]
    /\ DumpIdle
    /\ ToolsIdle
    /\ sync_dir_exists = TRUE
    /\ imessages_md = NoFile
    /\ emails_received = NoFile
    /\ imessage_report = NoReport
    /\ platform_section = <<>>
    /\ exit_status = -1

\* the call: the contacts are what the reads of the function make of the
\* dicts, and a read that raises ends the call
CallWithContacts ==
    /\ pc = "call"
    /\ IF \E k \in 1..Len(raw_contacts) : read_raises(raw_contacts[k])
       THEN /\ pc' = "error"
            /\ UNCHANGED imessage_contacts
       ELSE /\ pc' = "start"
            /\ imessage_contacts' =
                  [k \in 1..Len(raw_contacts) |-> contact_read(raw_contacts[k])]
    /\ UNCHANGED <<tool_vars, db_vars, sync_vars, platform_section, environment, now,
                   index_vars, i, candidate_vars, outreach_vars, run, previous>>

NextRaw == CallWithContacts \/ Next

SpecRaw == InitRaw /\ [][NextRaw]_vars

----------------------------------------------------------------------------
(* main of process_daily_sync: the sync directory, imessages.md and the    *)
(* reports made from it.                                                   *)
(* A thread block is the text after one '# Thread N: ' heading: its first  *)
(* line, the values of the metadata lines found among its first ten lines  *)
(* (None for a line that is not there), and the message lines that the     *)
(* message patterns match, in order. A line no pattern matches is not in   *)
(* the block's messages.                                                   *)

Thread(title, identifier, last_msg, count, messages) ==
    [title |-> title, identifier |-> identifier, last_msg |-> last_msg,
     count |-> count, messages |-> messages]

Msg(sender, date, text) == [sender |-> sender, date |-> date, text |-> text]

\* line.split('**Identifier:**')[1].strip(), '' without the line
metadata(v) == IF v = None THEN "" ELSE strip(v[1])

\* msg_count: 0 without the line, the text of the line otherwise
message_count(v) == IF v = None THEN [int |-> 0] ELSE [str |-> strip(v[1])]

\* the first sender that is not "Me", else the thread title
contact_name_of(b) ==
    LET names == SelectSeq(b.messages, LAMBDA msg : msg.sender # "Me")
    IN IF names # <<>> THEN names[1].sender ELSE strip(b.title)

Placeholders ==
    {"nsattributedstring", "streamtyped@nsattributedstring",
     "nsmutableattributedstring"}

\* a preview that is kept
meaningful(preview) ==
    /\ preview # ""
    /\ lower(preview) \notin Placeholders
    /\ ~startswith(lower(preview), "x$versiony$archivert$topx$objects")
    /\ ~startswith(lower(preview), ")at_0_")

RecentWindow == 8

\* preview_msgs: the last messages, stripped, without the placeholders
preview_msgs_of(b) ==
    LET n == Len(b.messages)
        last == SubSeq(b.messages,
                       IF n > RecentWindow THEN n - RecentWindow + 1 ELSE 1, n)
        stripped == [k \in 1..Len(last) |->
                        [sender |-> last[k].sender, date |-> last[k].date,
                         preview |-> strip(last[k].text)]]
    IN SelectSeq(stripped, LAMBDA msg : meaningful(msg.preview))

\* every block is appended
keeps_thread_always(contact_name, identifier) == TRUE

\* `if contact_name or identifier:`
keeps_thread(contact_name, identifier) == contact_name # "" \/ identifier # ""

\* the dict appended for block n
thread_contact(n, b) ==
    [thread |-> n,
     name |-> contact_name_of(b),
     identifier |-> metadata(b.identifier),
     last_msg |-> metadata(b.last_msg),
     count |-> message_count(b.count),
     recent |-> preview_msgs_of(b)]

RECURSIVE parse_threads(_, _)
\* `for i, thread in enumerate(threads, 1)` from block n on
parse_threads(threads, n) ==
    IF n > Len(threads) THEN <<>>
    ELSE LET c == thread_contact(n, threads[n])
         IN (IF keeps_thread(c.name, c.identifier) THEN <<c>> ELSE <<>>)
               \o parse_threads(threads, n + 1)

parse_imessage_export(threads) == parse_threads(threads, 1)

\* the contact as generate_new_people_candidates_report reads it
observed(c) ==
    [name |-> c.name, identifier |-> c.identifier, last_msg |-> c.last_msg,
     recent |-> [k \in 1..Len(c.recent) |-> [preview |-> c.recent[k].preview]],
     resolved_name |-> ""]

\* IMESSAGE_CONTACTS.md: the generation time, the total and, per contact,
\* its thread number, its heading and its message count
generate_imessage_report(contacts, clock) ==
    [generated |-> clock,
     total |-> Len(contacts),
     entries |-> [k \in 1..Len(contacts) |->
                    [thread |-> contacts[k].thread,
                     name |-> IF contacts[k].name # "" THEN contacts[k].name
                              ELSE contacts[k].identifier,
                     last_msg |-> contacts[k].last_msg,
                     count |-> contacts[k].count]]]

ThreadPool ==
    { Thread("Jane Doe", <<"+14155551234">>, <<"2025-01-05 10:00">>, <<"12">>,
             << Msg("Jane Doe", "2025-01-05", "hi") >>),
      Thread("Al", None, None, None, <<>>),
      Thread("", <<"+14155550199">>, None, <<"3">>,
             << Msg("Me", "2025-01-04", "yo") >>),
      Thread("", None, None, None, <<>>),
      Thread(" ", None, <<"2025-01-02">>, None,
             << Msg("Me", "2025-01-02", "NSAttributedString") >>),
      Thread("Group", <<" +14155550102 ">>, <<"2025-01-03">>, None,
             << Msg("Me", "2025-01-03", "a"),
                Msg("Bob Roy", "2025-01-03", " ") >>) }

ThreadExports == UNION {[1..n -> ThreadPool] : n \in 0..MaxContacts}

\* a received email of a platform address with a person's name
PlatformCandidate ==
    [name |-> "Ann Lee", email |-> "invitations@linkedin.com",
     date |-> "2025-01-05", subject |-> "Ann Lee requested to connect"]

\* NEW_PEOPLE_CANDIDATES.md and IMESSAGE_CONTACTS.md left by an earlier run
StaleCandidatesReport ==
    write_candidates_report(<<1>>, <<>>,
        << Contact("Old Pal", "+14155550177", "2024-12-01", <<>>) >>, 0)

StaleIMessageReport ==
    generate_imessage_report(
        parse_imessage_export(
            << Thread("Old Pal", <<"+14155550177">>, <<"2024-12-01">>,
                      <<"1">>, <<>>) >>), 0)

InitMain ==
    /\ sync_dir_exists \in BOOLEAN
    /\ imessages_md \in
          {NoFile} \cup {[exists |-> TRUE, threads |-> t] : t \in ThreadExports}
    /\ emails_received \in
          { NoFile, [exists |-> TRUE, platform |-> <<>>],
            [exists |-> TRUE, platform |-> <<PlatformCandidate>>] }
    /\ candidates_report \in {NoReport, StaleCandidatesReport}
    /\ imessage_report \in {NoReport, StaleIMessageReport}
    /\ ~sync_dir_exists =>
          /\ imessages_md = NoFile
          /\ emails_received = NoFile
          /\ candidates_report = NoReport
          /\ imessage_report = NoReport
    /\ people \in {{}, PeopleFiles}
    /\ address_book \in AddressBooks
    /\ raw_contacts = <<>>
    /\ imessage_contacts = <<>>
    /\ now = 1
    /\ pc = "main"
    /\ existing_slugs = {} /\ existing_names = {}
    /\ existing_emails = {} /\ existing_phones = {}
    /\ contacts_map = EmptyMap
    /\ i = 1
    /\ named_candidates = <<>>
    /\ unknown_number_candidates = <<>>
    /\ seen_unknown_numbers = {}
    /\ label = <<>>
    /\ im_candidates = <<>>
    /\ outreach_report = NoReport
    /\ run = 1
    /\ previous = NoPrevious
    /\ chat_db = [exists |-> FALSE]
    /\ DumpIdle
    /\ ToolsIdle
    /\ platform_section = <<>>
    /\ exit_status = -1

\* `if not sync_dir.exists(): ... sys.exit(1)`
CheckSyncDir ==
    /\ pc = "main"
    /\ IF sync_dir_exists
       THEN pc' = "imessages" /\ UNCHANGED exit_status
       ELSE pc' = "exit" /\ exit_status' = 1
    /\ UNCHANGED <<tool_vars, db_vars, raw_contacts, sync_dir_exists, imessages_md,
                   emails_received, imessage_report, platform_section,
                   environment, now, imessage_contacts, index_vars, i,
                   candidate_vars, outreach_vars, run, previous>>

\* `if imessage_file.exists():` the export is parsed and IMESSAGE_CONTACTS.md
\* written, and the candidates report follows; else both are skipped
ProcessIMessages ==
    /\ pc = "imessages"
    /\ IF imessages_md.exists
       THEN LET contacts == parse_imessage_export(imessages_md.threads)
            IN /\ imessage_contacts' =
                     [k \in 1..Len(contacts) |-> observed(contacts[k])]
               /\ imessage_report' = generate_imessage_report(contacts, now)
               /\ pc' = "start"
       ELSE /\ pc' = "emails"
            /\ UNCHANGED <<imessage_contacts, imessage_report>>
    /\ UNCHANGED <<tool_vars, db_vars, raw_contacts, sync_dir_exists, imessages_md,
                   emails_received, exit_status, platform_section,
                   environment, now, index_vars, i, candidate_vars,
                   outreach_vars, run, previous>>

NextMain == CheckSyncDir \/ ProcessIMessages \/ Next

SpecMain == InitMain /\ [][NextMain]_vars

----------------------------------------------------------------------------
(* slugify and normalize_phone called on their own, on a string and on a   *)
(* string one edit away from it, and called again on what they returned.   *)

MaxLen == 3

NameAlphabet == {"A", "a", "1", " ", "-"}

PhoneAlphabet == {"+", "1", "2", " ", "-"}

Inserted == {"(", ")", ".", "_"}

\* the strings over an alphabet, up to MaxLen characters
RECURSIVE Strings(_, _)
Strings(alphabet, n) ==
    IF n = 0 THEN {""}
    ELSE LET shorter == Strings(alphabet, n - 1)
         IN shorter \cup {s \o ch : s \in shorter, ch \in alphabet}

\* str.swapcase() on one character
swapcase_char(ch) ==
    IF ch \in LowerLetters
    THEN At(UpperAlpha, CHOOSE k \in 1..Len(LowerAlpha) : At(LowerAlpha, k) = ch)
    ELSE lower_char(ch)

\* s itself and s with one character inserted, removed or changed in case
Edits(s, alphabet) ==
    {s}
    \cup {SubSeq(s, 1, k) \o ch \o SubSeq(s, k + 1, Len(s)) :
             k \in 0..Len(s), ch \in alphabet \cup Inserted}
    \cup {SubSeq(s, 1, k - 1) \o SubSeq(s, k + 1, Len(s)) : k \in 1..Len(s)}
    \cup {SubSeq(s, 1, k - 1) \o swapcase_char(At(s, k))
             \o SubSeq(s, k + 1, Len(s)) : k \in 1..Len(s)}

InitCall ==
    /\ imessage_contacts = <<>>
    /\ people = {}
    /\ address_book = <<>>
    /\ Fresh
    /\ fn \in {"slugify", "normalize_phone"}
    /\ \E alphabet \in {IF fn = "slugify" THEN NameAlphabet ELSE PhoneAlphabet} :
          \E x \in Strings(alphabet, MaxLen) :
             \E y \in Edits(x, alphabet) : args = <<x, y>>
    /\ results = <<>>
    /\ NoCli
    /\ NoCleanup
    /\ NoStandardize
    /\ NoSlack

\* slugify(name) on both strings, then on both slugs
Slugify ==
    /\ fn = "slugify"
    /\ Len(results) < 2
    /\ LET on == IF results = <<>> THEN args ELSE results[Len(results)]
       IN results' = Append(results, <<slugify(on[1]), slugify(on[2])>>)
    /\ UNCHANGED <<fn, args, cli_vars, cleanup_vars, standardize_vars, slack_vars, daily_sync_vars,
                   environment, db_vars>>

\* normalize_phone(raw) on both strings, then on both tokens
NormalizePhone ==
    /\ fn = "normalize_phone"
    /\ Len(results) < 2
    /\ LET on == IF results = <<>> THEN args ELSE results[Len(results)]
       IN results' =
             Append(results, <<normalize_phone(on[1]), normalize_phone(on[2])>>)
    /\ UNCHANGED <<fn, args, cli_vars, cleanup_vars, standardize_vars, slack_vars, daily_sync_vars,
                   environment, db_vars>>

NextCall == Slugify \/ NormalizePhone

SpecCall == InitCall /\ [][NextCall]_vars

----------------------------------------------------------------------------
(* targeted_cleanup                                                        *)

DELETE_DOMAINS ==
    {"posthog.com", "clerk.com", "fabric.so", "granola.so", "fathom.video",
     "cartesia.ai", "linear.app", "featherso.com", "shack15.com", "canva.com",
     "vailresortsmail.com", "metamail.com", "postman.com", "venmo.com",
     "beehiiv.com", "luma-mail.com", "user.luma-mail.com",
     "calendar.luma-mail.com"}

DELETE_SENDER_PATTERNS ==
    {"no-reply@", "noreply@", "notifications@", "marketing@", "update@",
     "concierge@", "memberships@", "hey@posthog.com", "joe@posthog.com",
     "care@fabric.so", "tibo@mail.featherso.com", "kismat@shack15.com"}

DELETE_SUBJECT_PATTERNS ==
    {"you are invited to", "you're invited", "calendar updated",
     "new login to", "security alert", "stay connected", "welcome to",
     "unlock offers", "soak up summer", "summer vibes", "escape ladder",
     "struggling to choose"}

PRESERVE_DOMAINS ==
    {"important-sender@courses.example.com", "example-courses.com"}

PRESERVE_SENDERS == {"important sender", "my-company"}

RECURSIVE after_last_at(_)
\* s.split('@')[-1]
after_last_at(s) ==
    IF contains(s, "@")
    THEN after_last_at(SubSeq(s, (CHOOSE k \in 1..Len(s) : At(s, k) = "@") + 1,
                              Len(s)))
    ELSE s

\* should_delete(email)
should_delete(email) ==
    LET sender_email == lower(or_default(dict_get(email, "sender_email"), "")[1])
        sender == lower(or_default(dict_get(email, "sender"), "")[1])
        subject == lower(or_default(dict_get(email, "subject"), "")[1])
        domain == IF contains(sender_email, "@") THEN after_last_at(sender_email)
                  ELSE ""
    IN IF \E preserve \in PRESERVE_DOMAINS : contains(sender_email, preserve)
       THEN FALSE
       ELSE IF \E preserve \in PRESERVE_SENDERS : contains(sender, preserve)
       THEN FALSE
       ELSE \/ domain \in DELETE_DOMAINS
            \/ \E pattern \in DELETE_SENDER_PATTERNS :
                  contains(sender_email, pattern)
            \/ \E pattern \in DELETE_SUBJECT_PATTERNS : contains(subject, pattern)

\* an email of the JSON on stdin; its id is a number, 0 or None
Email(id, sender_email, sender, subject) ==
    [id |-> id, sender_email |-> <<sender_email>>, sender |-> <<sender>>,
     subject |-> <<subject>>]

\* `if email.get('id')`
has_id(email) == dict_get(email, "id") # None /\ dict_get(email, "id")[1] # 0

EmailPool ==
    { Email(<<7>>, "hey@posthog.com", "PostHog", "What's new"),
      Email(<<8>>, "ann@x.io", "Ann Lee", "Welcome to the team"),
      Email(None, "no-reply@bank.com", "Bank", "Statement"),
      Email(<<9>>, "info@example-courses.com", "Courses", "You're invited"),
      Email(<<10>>, "bob@x.io", "Bob Roy", "Lunch?") }

MaxEmails == 2

Flags == [dry_run : BOOLEAN, delete : BOOLEAN, yes : BOOLEAN]

InitCleanup ==
    /\ imessage_contacts = <<>>
    /\ people = {}
    /\ address_book = <<>>
    /\ Fresh
    /\ NoCall
    /\ argv \in Flags
    /\ tool_pc = "cleanup"
    /\ status = -1
    /\ stdin_emails \in UNION {[1..n -> EmailPool] : n \in 0..MaxEmails}
    /\ to_delete = <<>>
    /\ to_keep = <<>>
    /\ jxa_calls = <<>>
    /\ NoStandardize
    /\ NoSlack

\* main: `if args.delete and not args.yes: ... return 1`
ConfirmDelete ==
    /\ tool_pc = "cleanup"
    /\ IF argv.delete /\ ~argv.yes
       THEN tool_pc' = "returned" /\ status' = 1
       ELSE tool_pc' = "sort_emails" /\ UNCHANGED status
    /\ UNCHANGED <<argv, cleanup_vars, call_vars, standardize_vars, slack_vars, daily_sync_vars, environment,
                   db_vars>>

\* main: stdin is read and every email goes to to_delete or to to_keep
SortEmails ==
    /\ tool_pc = "sort_emails"
    /\ to_delete' = SelectSeq(stdin_emails, should_delete)
    /\ to_keep' = SelectSeq(stdin_emails, LAMBDA email : ~should_delete(email))
    /\ tool_pc' = "delete"
    /\ UNCHANGED <<argv, status, stdin_emails, jxa_calls, call_vars, standardize_vars, slack_vars, daily_sync_vars,
                   environment, db_vars>>

\* main: the samples are printed, then `if args.delete and args.yes:` the ids
\* of to_delete go to jxa_delete_by_ids
DeleteMessages ==
    /\ tool_pc = "delete"
    /\ LET with_id == SelectSeq(to_delete, has_id)
           delete_ids == [k \in 1..Len(with_id) |-> with_id[k].id[1]]
       IN jxa_calls' = IF argv.delete /\ argv.yes /\ delete_ids # <<>>
                       THEN Append(jxa_calls, delete_ids)
                       ELSE jxa_calls
    /\ status' = 0
    /\ tool_pc' = "returned"
    /\ UNCHANGED <<argv, stdin_emails, to_delete, to_keep, call_vars, standardize_vars, slack_vars, daily_sync_vars,
                   environment, db_vars>>

NextCleanup == ConfirmDelete \/ SortEmails \/ DeleteMessages

SpecCleanup == InitCleanup /\ [][NextCleanup]_vars

----------------------------------------------------------------------------
(* standardize_action_items. The lines of the files hold no emoji, so the  *)
(* emoji issue and the emoji fix never apply.                              *)

\* str.find(sub) + 1: the first place of sub in s, 0 if there is none
find(s, sub) ==
    IF contains(s, sub)
    THEN CHOOSE k \in 1..(Len(s) - Len(sub) + 1) :
            /\ SubSeq(s, k, k + Len(sub) - 1) = sub
            /\ \A j \in 1..(k - 1) : SubSeq(s, j, j + Len(sub) - 1) # sub
    ELSE 0

\* str.replace(old, new, 1)
replace_first(s, old, new) ==
    IF contains(s, old)
    THEN SubSeq(s, 1, find(s, old) - 1) \o new
            \o SubSeq(s, find(s, old) + Len(old), Len(s))
    ELSE s

RECURSIVE upper(_)
\* str.upper()
upper(s) ==
    IF s = "" THEN ""
    ELSE (IF At(s, 1) \in LowerLetters THEN swapcase_char(At(s, 1)) ELSE At(s, 1))
         \o upper(Tail(s))

\* str.capitalize()
capitalize(s) == IF s = "" THEN "" ELSE upper(At(s, 1)) \o lower(Tail(s))

\* \d{4}-\d{2}-\d{2} matches at place k of s
is_date_at(s, k) ==
    /\ k >= 1 /\ k + 9 <= Len(s)
    /\ \A j \in {0, 1, 2, 3, 5, 6, 8, 9} : At(s, k + j) \in Digits
    /\ At(s, k + 4) = "-" /\ At(s, k + 7) = "-"

\* re.match(r'^\s*-\s*\[\s*\]\s+', line)
is_action_item(line) ==
    LET a == lstrip(line, Whitespace)
        b == lstrip(Tail(a), Whitespace)
        c == lstrip(Tail(b), Whitespace)
    IN /\ startswith(a, "-")
       /\ startswith(b, "[")
       /\ startswith(c, "]")
       /\ Len(c) >= 2 /\ At(c, 2) \in Whitespace

\* extract_last_updated: the first date of the first line that names
\* Last Updated and holds a date, '' for None
extract_last_updated(file_content) ==
    LET dated == SelectSeq(file_content, LAMBDA line :
                    /\ contains(line, "Last Updated:")
                    /\ \E k \in 1..Len(line) : is_date_at(line, k))
        first == CHOOSE k \in 1..Len(dated[1]) :
                    /\ is_date_at(dated[1], k)
                    /\ \A j \in 1..(k - 1) : ~is_date_at(dated[1], j)
    IN IF dated = <<>> THEN "" ELSE SubSeq(dated[1], first, first + 9)

\* re.match(r'^##\s+Action Items\s*$', line.strip()) for some line
has_action_items_section(file_content) ==
    \E n \in 1..Len(file_content) :
       LET line == strip(file_content[n])
           rest == lstrip(SubSeq(line, 3, Len(line)), Whitespace)
       IN /\ startswith(line, "##")
          /\ Len(rest) < Len(line) - 2
          /\ rest = "Action Items"

SectionWindow == 50

\* is_in_action_items_section(file_content, line_idx) for the line at place
\* n: the nearest '## ' line above decides, and the first line of the file
\* is not looked at
is_in_action_items_section(file_content, n) ==
    LET lowest == (IF n - 1 - SectionWindow > 0 THEN n - 1 - SectionWindow
                   ELSE 0) + 2
        headers == {k \in lowest..(n - 1) :
                       startswith(strip(file_content[k]), "## ")}
        nearest == CHOOSE k \in headers : \A j \in headers : j <= k
    IN /\ headers # {}
       /\ \/ contains(strip(file_content[nearest]), "Action Items")
          \/ contains(lower(strip(file_content[nearest])), "action items")

\* has_date_tag(line)
has_date_tag(line) ==
    \E tag \in {"*(added", "*(moved from"} :
       \E k \in 1..(Len(line) - Len(tag) + 1) :
          LET rest == SubSeq(line, k + Len(tag), Len(line))
              date == lstrip(rest, Whitespace)
          IN /\ SubSeq(lower(line), k, k + Len(tag) - 1) = tag
             /\ Len(date) < Len(rest)
             /\ is_date_at(date, 1)

Priorities == <<"URGENT", "HIGH", "MEDIUM", "LOW">>

\* get_priority(line), '' for None
get_priority(line) ==
    LET bold == {k \in 1..4 :
                    \/ contains(line, "**" \o Priorities[k] \o ":**")
                    \/ contains(line, "**" \o capitalize(Priorities[k]) \o ":**")}
        plain == {k \in 1..4 : contains(upper(line), Priorities[k] \o ":")}
    IN IF bold # {} THEN Priorities[CHOOSE k \in bold : \A j \in bold : k <= j]
       ELSE IF plain # {}
       THEN Priorities[CHOOSE k \in plain : \A j \in plain : k <= j]
       ELSE ""

\* the priority of the line is not in one of the two bold forms
unbolded(line, priority) ==
    /\ ~contains(line, "**" \o priority \o ":**")
    /\ ~contains(line, "**" \o capitalize(priority) \o ":**")

\* the issues audit_file finds on the action item at place n
item_issues(file_path, file_content, n) ==
    LET line == file_content[n]
        priority == get_priority(line)
    IN (IF /\ ~contains(file_path, "task_context/")
           /\ ~is_in_action_items_section(file_content, n)
        THEN <<"wrong_section">> ELSE <<>>)
       \o (IF priority = "" THEN <<"missing_priority">> ELSE <<>>)
       \o (IF ~has_date_tag(line) THEN <<"missing_date">> ELSE <<>>)
       \o (IF priority # "" /\ unbolded(line, priority)
           THEN <<"priority_format">> ELSE <<>>)

RECURSIVE issues_from(_, _, _)
\* the issues of the action items from place n on
issues_from(file_path, file_content, n) ==
    IF n > Len(file_content) THEN <<>>
    ELSE (IF is_action_item(file_content[n])
          THEN item_issues(file_path, file_content, n) ELSE <<>>)
         \o issues_from(file_path, file_content, n + 1)

\* audit_file(file_path)
audit_file(file) ==
    LET count == Len(SelectSeq(file.lines, is_action_item))
    IN [file_path |-> file.path,
        total_action_items |-> count,
        issues |-> issues_from(file.path, file.lines, 1)
                   \o (IF /\ count > 0
                          /\ ~has_action_items_section(file.lines)
                          /\ ~contains(file.path, "task_context/")
                       THEN <<"missing_section">> ELSE <<>>)]

\* the file name of a path
basename(path) ==
    IF contains(path, "/")
    THEN SubSeq(path,
                (CHOOSE k \in 1..Len(path) :
                    /\ At(path, k) = "/"
                    /\ \A j \in (k + 1)..Len(path) : At(path, j) # "/") + 1,
                Len(path))
    ELSE path

\* audit_directory(root_dir): the audits of the files it does not skip that
\* have an action item
audit_directory(files) ==
    LET scanned == SelectSeq(files, LAMBDA file :
                      /\ \A excluded \in {".git", "node_modules", "__pycache__",
                                          ".cursor"} :
                            ~contains(file.path, excluded)
                      /\ basename(file.path) \notin
                            {"README.md", "ACTION_ITEMS_GUIDE.md"})
        all == [k \in 1..Len(scanned) |-> audit_file(scanned[k])]
    IN SelectSeq(all, LAMBDA audit : audit.total_action_items > 0)

\* fix 1: the priority MEDIUM for an item without one
add_priority(fixed) ==
    IF get_priority(fixed.line) = ""
    THEN [line |-> replace_first(fixed.line, "- [ ] ", "- [ ] **MEDIUM:** "),
          fixes |-> fixed.fixes + 1]
    ELSE fixed

\* fix 3: the first unbolded form of the priority is bolded
bold_priority(fixed) ==
    LET line == fixed.line
        priority == get_priority(line)
        variants == <<upper(priority), capitalize(priority), lower(priority)>>
        found == {k \in 1..3 :
                     /\ contains(line, variants[k] \o ":")
                     /\ ~contains(line, "**" \o variants[k] \o ":**")}
        variant == variants[CHOOSE k \in found : \A j \in found : k <= j]
    IN IF priority # "" /\ unbolded(line, priority) /\ found # {}
       THEN [line |-> replace_first(line, variant \o ":",
                                    "**" \o upper(priority) \o ":**"),
             fixes |-> fixed.fixes + 1]
       ELSE fixed

\* fix 4: the date tag for an item without one and without a date in
\* parentheses
add_date(fixed, default_date) ==
    IF /\ ~has_date_tag(fixed.line)
       /\ ~\E k \in 1..Len(fixed.line) :
             /\ At(fixed.line, k) = "("
             /\ is_date_at(fixed.line, k + 1)
             /\ k + 11 <= Len(fixed.line)
             /\ At(fixed.line, k + 11) = ")"
    THEN [line |-> rstrip(fixed.line, Whitespace) \o " *(added "
                      \o default_date \o ")*\n",
          fixes |-> fixed.fixes + 1]
    ELSE fixed

\* datetime.now().strftime('%Y-%m-%d')
Today == "2025-01-05"

\* the line apply_fixes puts in modified_lines and the fixes it counts
fix_line(line, default_date) ==
    IF is_action_item(line)
    THEN add_date(bold_priority(add_priority([line |-> line, fixes |-> 0])),
                  default_date)
    ELSE [line |-> line, fixes |-> 0]

RECURSIVE sum_fixes(_)
sum_fixes(fixed) ==
    IF fixed = <<>> THEN 0 ELSE fixed[1].fixes + sum_fixes(Tail(fixed))

\* apply_fixes(file_path, dry_run): the fixes it counts and the file it
\* writes, if it writes
apply_fixes(file, dry_run) ==
    LET last_updated == extract_last_updated(file.lines)
        default_date == IF last_updated # "" THEN last_updated ELSE Today
        fixed == [n \in 1..Len(file.lines) |->
                     fix_line(file.lines[n], default_date)]
    IN [fixes_applied |-> sum_fixes(fixed),
        write |-> IF sum_fixes(fixed) > 0 /\ ~dry_run
                  THEN << [path |-> file.path,
                           lines |-> [n \in 1..Len(fixed) |-> fixed[n].line]] >>
                  ELSE <<>>]

MdFile(path, lines) == [path |-> path, lines |-> lines]

MdPool ==
    { MdFile("people/al.md",
             << "# Al\n", "**Last Updated:** 2025-01-03\n", "## Action Items\n",
                "- [ ] Call Bob\n",
                "- [ ] high: pay rent (2025-01-02)\n" >>),
      MdFile("people/bo.md",
             << "# Bo\n", "## Action Items\n",
                "- [ ] **HIGH:** Ship it *(added 2025-01-02)*\n" >>),
      MdFile("task_context/x.md",
             << "## Completion Criteria\n", "-  [ ] Low: tidy up\n" >>),
      MdFile("README.md", << "- [ ] Write docs\n" >>),
      MdFile("notes.md", << "plain text\n" >>) }

MaxFiles == 2

StandardizeFlags ==
    [fix : BOOLEAN, dry_run : BOOLEAN,
     file : {None} \cup {<<f.path>> : f \in MdPool}]

InitStandardize ==
    /\ imessage_contacts = <<>>
    /\ people = {}
    /\ address_book = <<>>
    /\ Fresh
    /\ NoCall
    /\ NoCleanup
    /\ md_files \in UNION {[1..n -> MdPool] : n \in 1..MaxFiles}
    /\ \A j, k \in 1..Len(md_files) : j # k => md_files[j].path # md_files[k].path
    /\ argv \in StandardizeFlags
    /\ argv.file # None => \E k \in 1..Len(md_files) : md_files[k].path = argv.file[1]
    /\ tool_pc = "standardize"
    /\ status = -1
    /\ audits = <<>>
    /\ written = <<>>
    /\ NoSlack

\* the file of the directory at a path
file_at(path) ==
    md_files[CHOOSE k \in 1..Len(md_files) : md_files[k].path = path]

\* main: `if args.file:` that file is audited, else the directory
AuditFiles ==
    /\ tool_pc = "standardize"
    /\ audits' = IF argv.file # None THEN <<audit_file(file_at(argv.file[1]))>>
                 ELSE audit_directory(md_files)
    /\ tool_pc' = "fixes"
    /\ UNCHANGED <<argv, status, md_files, written, call_vars, cleanup_vars,
                   slack_vars, daily_sync_vars, environment, db_vars>>

RECURSIVE fix_audits(_, _)
\* `for audit in audits:` the writes of apply_fixes on the files with issues
fix_audits(todo, dry_run) ==
    IF todo = <<>> THEN <<>>
    ELSE (IF Len(todo[1].issues) > 0
          THEN apply_fixes(file_at(todo[1].file_path), dry_run).write
          ELSE <<>>)
         \o fix_audits(Tail(todo), dry_run)

\* main: `if args.fix or args.dry_run:` apply_fixes is called with
\* dry_run=not args.fix
ApplyFixes ==
    /\ tool_pc = "fixes"
    /\ written' = IF argv.fix \/ argv.dry_run
                  THEN written \o fix_audits(audits, ~argv.fix)
                  ELSE written
    /\ status' = 0
    /\ tool_pc' = "returned"
    /\ UNCHANGED <<argv, md_files, audits, call_vars, cleanup_vars,
                   slack_vars, daily_sync_vars, environment, db_vars>>

NextStandardize == AuditFiles \/ ApplyFixes

SpecStandardize == InitStandardize /\ [][NextStandardize]_vars

----------------------------------------------------------------------------
(* slack_dump.fetch_messages. The channel's history is a list of result    *)
(* pages; the request without a cursor gets the first page, the request    *)
(* with the cursor of page k gets page k, and a page carries a next_cursor *)
(* while a page follows it. A message is its ts, a number.                 *)

MaxPages == 2

MaxPageSize == 2

MaxLimit == 2

Timestamps == 1..3

Pages == UNION {[1..n -> Timestamps] : n \in 0..MaxPageSize}

Histories == UNION {[1..n -> Pages] : n \in 1..MaxPages}

\* slack_api_call("conversations.history", token, params)
conversations_history(pages, at) ==
    LET k == IF at = None THEN 1 ELSE at[1]
    IN [messages |-> pages[k],
        next_cursor |-> IF k < Len(pages) THEN <<k + 1>> ELSE None]

\* `if limit > 0 and len(messages) >= limit:`
limit_reached(max, fetched) == max > 0 /\ fetched >= max

RECURSIVE insert_by_ts(_, _)
insert_by_ts(sorted, ts) ==
    IF sorted = <<>> THEN <<ts>>
    ELSE IF ts < sorted[1] THEN <<ts>> \o sorted
    ELSE <<sorted[1]>> \o insert_by_ts(Tail(sorted), ts)

RECURSIVE sort_by_ts(_)
\* messages.sort(key=lambda m: float(m["ts"])), a stable sort
sort_by_ts(list) ==
    IF list = <<>> THEN <<>>
    ELSE insert_by_ts(sort_by_ts(SubSeq(list, 1, Len(list) - 1)), list[Len(list)])

InitSlack ==
    /\ imessage_contacts = <<>>
    /\ people = {}
    /\ address_book = <<>>
    /\ Fresh
    /\ NoCall
    /\ NoCleanup
    /\ NoStandardize
    /\ argv = NoFlags
    /\ tool_pc = "fetch"
    /\ status = -1
    /\ history \in Histories
    /\ limit \in 0..MaxLimit
    /\ cursor = None
    /\ slack_messages = <<>>

\* one pass of `while True:`: a page is requested and its messages appended;
\* the loop ends without a next_cursor, or with the limit reached, in which
\* case the messages are cut to the limit
FetchPage ==
    /\ tool_pc = "fetch"
    /\ LET result == conversations_history(history, cursor)
           fetched == slack_messages \o result.messages
       IN /\ cursor' = result.next_cursor
          /\ IF result.next_cursor = None
             THEN slack_messages' = fetched /\ tool_pc' = "sort"
             ELSE IF limit_reached(limit, Len(fetched))
             THEN slack_messages' = SubSeq(fetched, 1, limit)
                  /\ tool_pc' = "sort"
             ELSE slack_messages' = fetched /\ tool_pc' = "fetch"
    /\ UNCHANGED <<argv, status, history, limit, call_vars, cleanup_vars,
                   standardize_vars, daily_sync_vars, environment, db_vars>>

\* the messages are sorted, oldest first, and returned
SortMessages ==
    /\ tool_pc = "sort"
    /\ slack_messages' = sort_by_ts(slack_messages)
    /\ tool_pc' = "returned"
    /\ UNCHANGED <<argv, status, history, limit, cursor, call_vars, cleanup_vars,
                   standardize_vars, daily_sync_vars, environment, db_vars>>

NextSlack == FetchPage \/ SortMessages

SpecSlack == InitSlack /\ [][NextSlack]_vars

----------------------------------------------------------------------------
(* imessage_dump.main: load_contacts_mapping reads the AddressBook         *)
(* databases one after the other, then the Messages database is copied     *)
(* and the copy is queried. load_contacts_map of process_daily_sync is the *)
(* same loop. A database file is [exists, opens, phone_sql, email_sql,     *)
(* phones, emails]: whether the path exists, whether sqlite3.connect       *)
(* succeeds, whether each query runs, and the rows the queries return.     *)

MaxDbs == 2

DbFile(exists, opens, phone_sql, email_sql, phones, emails) ==
    [exists |-> exists, opens |-> opens, phone_sql |-> phone_sql,
     email_sql |-> email_sql, phones |-> phones, emails |-> emails]

DbPool ==
    { DbFile(TRUE, TRUE, TRUE, TRUE,
             << Row("+1 (415) 555-1234", "Jane Doe") >>,
             << Row("Bob@x.io", "Bob Roy") >>),
      DbFile(TRUE, TRUE, TRUE, TRUE,
             << Row("14155551234", "J. Doe"), Row("+14155550102", "Unknown") >>,
             << >>),
      DbFile(TRUE, TRUE, TRUE, FALSE,
             << Row(" +1 415-555-0102 ", "Mom") >>, << >>),
      DbFile(TRUE, TRUE, FALSE, TRUE, << >>, << >>),
      DbFile(TRUE, FALSE, TRUE, TRUE, << >>, << >>),
      DbFile(FALSE, TRUE, TRUE, TRUE, << >>, << >>) }

DbDirs == UNION {[1..n -> DbPool] : n \in 0..MaxDbs}

ChatDbs == {[exists |-> TRUE, opens |-> TRUE],
            [exists |-> TRUE, opens |-> FALSE],
            [exists |-> FALSE, opens |-> TRUE]}

\* the file a connection is opened on
AddressBookFile(k) == [file |-> "AddressBook-v22.abcddb", k |-> k]

LiveChatDb == [file |-> "chat.db", k |-> 0]

ChatCopy == [file |-> "chat.copy.db", k |-> 0]

\* a function that hands back the path it was given
ensure_copy_readonly_in_place(db_path) == db_path

\* ensure_copy_readonly(db_path): dst, the path of the copy
ensure_copy_readonly(db_path) == ChatCopy

InitDump ==
    /\ address_book \in DbDirs
    /\ chat_db \in ChatDbs
    /\ imessage_contacts = <<>>
    /\ people = {}
    /\ now = 0
    /\ pc = "start"
    /\ existing_slugs = {} /\ existing_names = {}
    /\ existing_emails = {} /\ existing_phones = {}
    /\ contacts_map = EmptyMap
    /\ i = 1
    /\ named_candidates = <<>>
    /\ unknown_number_candidates = <<>>
    /\ seen_unknown_numbers = {}
    /\ label = <<>>
    /\ candidates_report = NoReport
    /\ im_candidates = <<>>
    /\ outreach_report = NoReport
    /\ run = 1
    /\ previous = NoPrevious
    /\ DumpIdle
    /\ ToolsIdle
    /\ SyncIdle

resolver_vars == <<tool_vars, people, now, imessage_contacts, pc, index_vars, i,
                   candidate_vars, outreach_vars, run, previous, sync_vars,
                   platform_section>>

\* main calls load_contacts_mapping
LoadContactsMapping ==
    /\ dump_pc = "start"
    /\ dump_pc' = "all_dbs"
    /\ db_index' = 1
    /\ handle_to_name' = EmptyMap
    /\ UNCHANGED <<resolver_vars, address_book, chat_db, conn, connections,
                   connected_files, tmp_files>>

\* for db_path in all_dbs: a missing path is skipped, sqlite3.connect may
\* raise, and then the database is skipped too
NextDb ==
    /\ dump_pc = "all_dbs"
    /\ db_index <= Len(address_book)
    /\ LET db == address_book[db_index]
       IN IF db.exists /\ db.opens
          THEN /\ conn' = AddressBookFile(db_index)
               /\ connections' = connections \cup {AddressBookFile(db_index)}
               /\ connected_files' =
                     connected_files \cup {AddressBookFile(db_index)}
               /\ dump_pc' = "phone_sql"
               /\ UNCHANGED db_index
          ELSE /\ db_index' = db_index + 1
               /\ UNCHANGED <<conn, connections, connected_files, dump_pc>>
    /\ UNCHANGED <<resolver_vars, address_book, chat_db, handle_to_name,
                   tmp_files>>

\* for row in conn.execute(phone_sql); when it raises, except: continue
PhoneSql ==
    /\ dump_pc = "phone_sql"
    /\ LET db == address_book[db_index]
       IN IF db.phone_sql
          THEN /\ handle_to_name' = add_phone_rows(handle_to_name, db.phones)
               /\ dump_pc' = "email_sql"
               /\ UNCHANGED db_index
          ELSE /\ db_index' = db_index + 1
               /\ dump_pc' = "all_dbs"
               /\ UNCHANGED handle_to_name
    /\ UNCHANGED <<resolver_vars, address_book, chat_db, conn, connections,
                   connected_files, tmp_files>>

\* for row in conn.execute(email_sql), then conn.close(); when the query
\* raises, except: continue
EmailSql ==
    /\ dump_pc = "email_sql"
    /\ LET db == address_book[db_index]
       IN IF db.email_sql
          THEN /\ handle_to_name' = add_email_rows(handle_to_name, db.emails)
               /\ connections' = connections \ {conn}
          ELSE UNCHANGED <<handle_to_name, connections>>
    /\ db_index' = db_index + 1
    /\ dump_pc' = "all_dbs"
    /\ UNCHANGED <<resolver_vars, address_book, chat_db, conn,
                   connected_files, tmp_files>>

\* return handle_to_name: the frame and its local conn are released
ReturnHandleToName ==
    /\ dump_pc = "all_dbs"
    /\ db_index > Len(address_book)
    /\ dump_pc' = "returned"
    /\ conn' = NoConn
    /\ UNCHANGED <<resolver_vars, address_book, chat_db, db_index,
                   handle_to_name, connections, connected_files, tmp_files>>

\* the interpreter finalizes a connection that nothing refers to any more
Finalize ==
    /\ \E c \in connections \ {conn} : connections' = connections \ {c}
    /\ UNCHANGED <<resolver_vars, address_book, chat_db, dump_pc, db_index,
                   handle_to_name, conn, connected_files, tmp_files>>

\* copy_path = ensure_copy_readonly(args.db); FileNotFoundError ends main
EnsureCopyReadonly ==
    /\ dump_pc = "returned"
    /\ IF chat_db.exists
       THEN /\ tmp_files' = tmp_files \cup {ensure_copy_readonly(LiveChatDb)}
            /\ dump_pc' = "copied"
       ELSE /\ dump_pc' = "failed"
            /\ UNCHANGED tmp_files
    /\ UNCHANGED <<resolver_vars, address_book, chat_db, db_index,
                   handle_to_name, conn, connections, connected_files>>

\* conn = open_ro_connection(copy_path); sqlite3.Error ends main
OpenRoConnection ==
    /\ dump_pc = "copied"
    /\ IF chat_db.opens
       THEN /\ conn' = ensure_copy_readonly(LiveChatDb)
            /\ connections' =
                  connections \cup {ensure_copy_readonly(LiveChatDb)}
            /\ connected_files' =
                  connected_files \cup {ensure_copy_readonly(LiveChatDb)}
            /\ dump_pc' = "connected"
       ELSE /\ dump_pc' = "failed"
            /\ UNCHANGED <<conn, connections, connected_files>>
    /\ UNCHANGED <<resolver_vars, address_book, chat_db, db_index,
                   handle_to_name, tmp_files>>

\* fetch_messages or fetch_last_messages runs its query on conn, the rows
\* are written, and main ends
FetchMessages ==
    /\ dump_pc = "connected"
    /\ conn \in connections
    /\ dump_pc' = "done"
    /\ UNCHANGED <<resolver_vars, address_book, chat_db, db_index,
                   handle_to_name, conn, connections, connected_files,
                   tmp_files>>

NextDump ==
    \/ LoadContactsMapping \/ NextDb \/ PhoneSql \/ EmailSql
    \/ ReturnHandleToName \/ Finalize
    \/ EnsureCopyReadonly \/ OpenRoConnection \/ FetchMessages

SpecDump == InitDump /\ [][NextDump]_vars

----------------------------------------------------------------------------
(* Properties                                                              *)

Range(list) == {list[k] : k \in 1..Len(list)}

\* the Contact Directory as load_contacts_map builds it from the databases
Directory == load_contacts_map(address_book)

\* the People-File index as load_people_index builds it from people/
PeopleIndex == load_people_index(people)

\* the contacts whose iteration of the classification loop has ended
Processed == 1..Len(label)

\* a contact's identifier as the loop reads it
IdentifierOf(t) == strip(imessage_contacts[t].identifier)

\* a contact's name after the step-1 directory resolution
NameAfterStep1(t) ==
    str_or(step1_resolved(imessage_contacts[t], Directory),
           strip(imessage_contacts[t].name))

InNamed(t) == t \in Range(named_candidates)

InUnknown(t) == t \in Range(unknown_number_candidates)

\* main has run to its end
Finished == pc = "done"

\* C1: a contact whose name after step 1, trimmed and lowercased, is in
\* IMESSAGE_EXCLUDE_NAMES is in neither candidate list, whatever the People
\* files and the Contact Directory are.
C1_ExcludedNameNeverCandidate ==
    \A t \in Processed :
        lower(strip(NameAfterStep1(t))) \in IMESSAGE_EXCLUDE_NAMES
            => ~InNamed(t) /\ ~InUnknown(t)

\* an excluded contact named in the export and one named by the directory
C1_Witness ==
    /\ Finished
    /\ \E t \in Processed :
          /\ lower(strip(NameAfterStep1(t))) \in IMESSAGE_EXCLUDE_NAMES
          /\ label[t] = "excluded"
          /\ imessage_contacts[t].resolved_name # ""
    /\ \E t \in Processed :
          /\ label[t] = "excluded"
          /\ imessage_contacts[t].resolved_name = ""

\* the lowercased previews of a contact, joined as the heuristic joins them
PreviewsOf(t) == lower(join_previews(imessage_contacts[t].recent))

HasMarker(t) ==
    \E marker \in IMESSAGE_SYSTEM_MARKERS : contains(PreviewsOf(t), marker)

\* C2: a contact whose previews contain a system marker phrase is in neither
\* candidate list and gets no outreach draft.
C2_SystemMarkerNeverListed ==
    \A t \in 1..Len(imessage_contacts) :
        HasMarker(t) =>
            /\ t \in Processed => ~InNamed(t) /\ ~InUnknown(t)
            /\ pc \in {"drafts", "done"} => t \notin Range(im_candidates)
            /\ Finished =>
                  \A k \in 1..Len(outreach_report.drafts) :
                      outreach_report.drafts[k].to # IdentifierOf(t)

\* a marked contact that matches no People file has been through both loops
C2_Witness ==
    /\ Finished
    /\ people = {}
    /\ \E t \in Processed :
          /\ HasMarker(t)
          /\ label[t] = "system"
          /\ imessage_contacts[t].name # ""
          /\ \E u \in Processed : InNamed(u)

\* the contact and the index of the specification's scenario
C3_Scenario(t) ==
    /\ strip(imessage_contacts[t].name) = ""
    /\ IdentifierOf(t) = "4155551234"
    /\ "+14155551234" \in existing_phones

\* C3 as stated: with +14155551234 in the People phone set, the nameless
\* contact 4155551234 is skipped by the People-File phone match.
C3_SkippedByPhoneMatch ==
    \A t \in Processed : C3_Scenario(t) => label[t] = "known_phone"

\* C3 as amended: that contact is in neither candidate list, but not through
\* the phone match: no phone token is computed for an identifier without a
\* leading '+', and the contact leaves the loop at the last branch unlabelled.
C3_LeftOutByNoBranch ==
    \A t \in Processed :
        C3_Scenario(t) =>
            /\ ~InNamed(t) /\ ~InUnknown(t)
            /\ norm_phone(NameAfterStep1(t), IdentifierOf(t)) = ""
            /\ label[t] = "no_branch"

C3_Witness ==
    /\ Finished
    /\ \E t \in Processed : C3_Scenario(t) /\ label[t] = "no_branch"

\* two nameless contacts whose identifiers are formatting variants of one
\* phone number: the same digits, and phone punctuation only
C4_Variants(t, u) ==
    /\ strip(imessage_contacts[t].name) = ""
    /\ strip(imessage_contacts[u].name) = ""
    /\ is_phone_number(IdentifierOf(t))
    /\ is_phone_number(IdentifierOf(u))
    /\ keep_chars(IdentifierOf(t), Digits) = keep_chars(IdentifierOf(u), Digits)

\* C4: formatting variants of one phone number are matched alike: if one is
\* classified known by the People phone set or resolved to a name by the
\* Contact Directory, so is every other variant.
C4_VariantsMatchAlike ==
    \A t, u \in Processed :
        C4_Variants(t, u) =>
            /\ label[t] = "known_phone" <=> label[u] = "known_phone"
            /\ imessage_contacts[t].resolved_name # ""
                  <=> imessage_contacts[u].resolved_name # ""

\* the token the unknown-number list is deduplicated by
PhoneTokenOf(t) ==
    normalize_phone(IF startswith(IdentifierOf(t), "+") THEN IdentifierOf(t)
                    ELSE NameAfterStep1(t))

KnownToPeople(t) ==
    \/ known_by_identifier_email(IdentifierOf(t), PeopleIndex.emails)
    \/ known_by_phone(NameAfterStep1(t), IdentifierOf(t), PeopleIndex.phones)
    \/ known_by_slug(NameAfterStep1(t), PeopleIndex.slugs, PeopleIndex.names)
    \/ known_by_first_last(NameAfterStep1(t), PeopleIndex.slugs, PeopleIndex.names)
    \/ known_by_name_email(NameAfterStep1(t), PeopleIndex.emails)

\* a contact that is not excluded, not system noise, not known, has a phone
\* token and resolves to no name
C5_UnresolvedNumber(t) ==
    /\ ~is_excluded_name(NameAfterStep1(t))
    /\ ~is_likely_system_imessage_contact(imessage_contacts[t])
    /\ ~KnownToPeople(t)
    /\ ~is_real_name(NameAfterStep1(t))
    /\ ~contains(IdentifierOf(t), "@")
    /\ startswith(IdentifierOf(t), "+") \/ is_phone_number(NameAfterStep1(t))
    /\ PhoneTokenOf(t) # ""
    /\ resolve_phone_to_name(IdentifierOf(t), Directory) = ""

\* C5: unknown_number_candidates holds at most one contact per normalized
\* phone token, and exactly one for every token of a processed contact that
\* is not excluded, not system noise, not known and resolves to no name.
C5_OneUnknownPerToken ==
    /\ \A k, l \in 1..Len(unknown_number_candidates) :
          k # l => PhoneTokenOf(unknown_number_candidates[k])
                      # PhoneTokenOf(unknown_number_candidates[l])
    /\ \A t \in Processed :
          C5_UnresolvedNumber(t) =>
              Cardinality({u \in Range(unknown_number_candidates) :
                              PhoneTokenOf(u) = PhoneTokenOf(t)}) = 1

\* two differently written contacts of one number: one listed, one dropped
C5_Witness ==
    /\ Finished
    /\ \E t, u \in Processed :
          /\ t # u
          /\ C5_UnresolvedNumber(t) /\ C5_UnresolvedNumber(u)
          /\ PhoneTokenOf(t) = PhoneTokenOf(u)
          /\ IdentifierOf(t) # IdentifierOf(u)
          /\ InUnknown(t) /\ ~InUnknown(u)
          /\ label[u] = "duplicate_number"

\* a report with its "*Generated: ...*" line blanked
WithoutGeneratedLine(report) == [report EXCEPT !.generated = 0]

\* a second or later run whose inputs are those of the run before it
C6_SameInputsAgain ==
    /\ Finished
    /\ previous.run > 0
    /\ previous.people = people
    /\ previous.address_book = address_book

\* C6 as stated: a run on unchanged inputs writes a byte-identical
\* candidates report.
C6_ByteIdenticalReport ==
    C6_SameInputsAgain => candidates_report = previous.candidates_report

\* C6 as amended: a run on unchanged inputs writes the same report apart from
\* its "Generated" line, which carries the clock's minute at writing time;
\* the two files are byte-identical when both runs are in the same minute.
C6_IdenticalApartFromGeneratedLine ==
    C6_SameInputsAgain =>
        /\ WithoutGeneratedLine(candidates_report)
              = WithoutGeneratedLine(previous.candidates_report)
        /\ candidates_report.generated = previous.candidates_report.generated
              => candidates_report = previous.candidates_report

\* a second run, a minute later, with candidates of both kinds in its report
C6_Witness ==
    /\ C6_SameInputsAgain
    /\ candidates_report.generated # previous.candidates_report.generated
    /\ candidates_report.named_count > 0
    /\ candidates_report.unknown_count > 0

\* both lists have been sorted
Sorted == pc \in {"emails", "outreach", "drafts", "done"}

ParsedOf(t) == parse_dt_maybe(imessage_contacts[t].last_msg)

Parses(t) == ParsedOf(t) # NoDate

KeyOf(t) == IF Parses(t) THEN ParsedOf(t) ELSE DatetimeMin

\* the order both claims agree on: descending timestamps, ties in input order
C7_Descending(list) ==
    \A k, l \in 1..Len(list) :
        k < l =>
            /\ Parses(list[k]) /\ Parses(list[l])
                  => ~dt_less(ParsedOf(list[k]), ParsedOf(list[l]))
            /\ KeyOf(list[k]) = KeyOf(list[l]) => list[k] < list[l]

\* C7 as stated: most recent first, every contact whose timestamp cannot be
\* parsed after every contact whose timestamp parses, ties in input order.
C7_UnparsableAfterEveryParsable ==
    Sorted =>
        \A list \in {named_candidates, unknown_number_candidates} :
            /\ C7_Descending(list)
            /\ \A k, l \in 1..Len(list) :
                  k < l /\ ~Parses(list[k]) => ~Parses(list[l])

\* C7 as amended: most recent first, ties in input order, and every contact
\* whose timestamp cannot be parsed after every contact whose timestamp
\* parses to a moment later than datetime.min; a timestamp that parses to
\* datetime.min, 0001-01-01 00:00:00, has the key of an unparsable one and
\* the two keep their input order.
C7_UnparsableAfterLaterThanMin ==
    Sorted =>
        \A list \in {named_candidates, unknown_number_candidates} :
            /\ C7_Descending(list)
            /\ \A k, l \in 1..Len(list) :
                  k < l /\ ~Parses(list[k]) /\ Parses(list[l])
                      => ParsedOf(list[l]) = DatetimeMin

\* the sort moved a later contact of the input to the front, and an
\* unparsable timestamp is last in the other list
C7_Witness ==
    /\ Finished
    /\ \/ /\ Len(named_candidates) = 2
          /\ named_candidates[1] > named_candidates[2]
       \/ /\ Len(unknown_number_candidates) = 2
          /\ unknown_number_candidates[1] > unknown_number_candidates[2]
          /\ ~Parses(unknown_number_candidates[2])

\* C8: no contact is in both lists, none is twice in one list, and none the
\* loop classified known is in either.
C8_ListsDisjoint ==
    /\ Range(named_candidates) \cap Range(unknown_number_candidates) = {}
    /\ \A list \in {named_candidates, unknown_number_candidates} :
          \A k, l \in 1..Len(list) : k # l => list[k] # list[l]
    /\ \A t \in Processed :
          label[t] \in KnownLabels \/ KnownToPeople(t)
              => ~InNamed(t) /\ ~InUnknown(t)

\* a contact promoted by the last directory lookup next to an unknown number
C8_Witness ==
    /\ Finished
    /\ \E t, u \in Processed :
          /\ label[t] = "named_resolved" /\ InNamed(t)
          /\ label[u] = "unknown_number" /\ InUnknown(u)

\* not in the exclusion list, not system noise, matching no People file
C9_Eligible(t) ==
    /\ ~is_excluded_name(NameAfterStep1(t))
    /\ ~is_likely_system_imessage_contact(imessage_contacts[t])
    /\ ~KnownToPeople(t)

\* C9 as stated: every such contact is in exactly one of the two lists.
C9_ClassificationTotal ==
    \A t \in Processed : C9_Eligible(t) => (InNamed(t) <=> ~InUnknown(t))

\* the contacts the last step leaves without a label: no real name, no
\* email-shaped identifier, and no '+' identifier or phone-shaped name, or no
\* digit in it, or the number of an unknown contact listed before
C9_LeftOut(t) ==
    /\ ~is_real_name(NameAfterStep1(t))
    /\ ~contains(IdentifierOf(t), "@")
    /\ \/ ~(startswith(IdentifierOf(t), "+") \/ is_phone_number(NameAfterStep1(t)))
       \/ PhoneTokenOf(t) = ""
       \/ \E u \in Processed :
             u < t /\ InUnknown(u) /\ PhoneTokenOf(u) = PhoneTokenOf(t)

\* C9 as amended: every such contact is in at most one list, and in exactly
\* one unless it has no real name and no email-shaped identifier and either
\* has neither a '+'-prefixed identifier nor a phone-shaped name, or has no
\* digit in it, or repeats the number of an unknown contact listed before it;
\* those contacts are in neither list.
C9_TotalButForLeftOut ==
    \A t \in Processed :
        C9_Eligible(t) =>
            /\ ~(InNamed(t) /\ InUnknown(t))
            /\ (~InNamed(t) /\ ~InUnknown(t)) <=> C9_LeftOut(t)

\* one contact left without a label, one repeated number, one listed
C9_Witness ==
    /\ Finished
    /\ \E t, u \in Processed :
          /\ C9_Eligible(t) /\ label[t] \in {"no_branch", "duplicate_number"}
          /\ C9_Eligible(u) /\ (InNamed(u) \/ InUnknown(u))

\* a people file matches a contact by phone, by email or by name slug
C10_Matches(md, t) ==
    LET rec == parse_people_file(md)
        ident == IdentifierOf(t)
        name == NameAfterStep1(t)
        slugs == {rec.slug} \cup {slugify(n) : n \in rec.names}
        parts == split_ws(name)
    IN \/ startswith(ident, "+") /\ normalize_phone(ident) \in rec.phones
       \/ /\ ~startswith(ident, "+") /\ startswith(name, "+")
          /\ normalize_phone(name) \in rec.phones
       \/ contains(ident, "@") /\ normalize_email(ident) \in rec.emails
       \/ contains(name, "@") /\ normalize_email(name) \in rec.emails
       \/ is_real_name(name) /\ slugify(name) \in slugs
       \/ /\ is_real_name(name) /\ Len(parts) >= 2
          /\ slugify(parts[1] \o " " \o parts[Len(parts)]) \in slugs

C11_ReachesPhoneMatch(t) ==
    label[t] \notin {"excluded", "system", "known_email"}

\* C11: a contact that reaches the phone match is classified known when
\* either its identifier or its phone-shaped name normalizes to a token of
\* the People-File phone set.
C11_KnownByEitherPhone ==
    \A t \in Processed :
        /\ C11_ReachesPhoneMatch(t)
        /\ \/ normalize_phone(IdentifierOf(t)) \in existing_phones
           \/ /\ is_phone_number(NameAfterStep1(t))
              /\ normalize_phone(NameAfterStep1(t)) \in existing_phones
        => label[t] = "known_phone"

\* the short-code rule on one field
C12_ShortCode(s) == isdigit(s) /\ Len(s) \in 4..6

\* the literal rule on one field
C12_Placeholder(s) == lower(s) \in {"unknown", "identifier"}

\* C12: a contact is system noise if its name or its identifier is an
\* all-digit string of 4 to 6 digits, or if its name or its identifier is
\* "unknown" or "identifier" in any case, also when the other field is an
\* ordinary non-empty value.
C12_RulesOnBothFields ==
    \A t \in 1..Len(imessage_contacts) :
        LET name == strip(imessage_contacts[t].name)
        IN \/ C12_ShortCode(name) \/ C12_ShortCode(IdentifierOf(t))
           \/ C12_Placeholder(name) \/ C12_Placeholder(IdentifierOf(t))
           => is_likely_system_imessage_contact(imessage_contacts[t])

\* the three variants of an identifier, in the order they are tried
C13_Variants(identifier) ==
    << identifier,
       IF startswith(identifier, "+") THEN Tail(identifier) ELSE identifier,
       remove_chars(identifier, PhonePunctuation) >>

\* the display name of the first variant that is a key of the directory
C13_DirectoryName(identifier) ==
    LET v == C13_Variants(identifier)
        hits == {k \in 1..3 : v[k] \in DOMAIN Directory}
    IN IF hits = {} THEN ""
       ELSE Directory[v[CHOOSE k \in hits : \A j \in hits : k <= j]]

\* C13: when a contact's name is empty or phone-shaped and a variant of its
\* identifier is a key of the Contact Directory, resolved_name is the
\* display name of that key, with or without a leading '+' on the identifier.
C13_Step1ResolvesEveryVariant ==
    pc = "classify" =>
        \A t \in Processed :
            LET name == strip(imessage_contacts[t].name)
            IN /\ name = "" \/ is_phone_number(name)
               /\ C13_DirectoryName(IdentifierOf(t)) # ""
               => imessage_contacts[t].resolved_name
                     = C13_DirectoryName(IdentifierOf(t))

\* load_contacts_mapping has returned
Returned == dump_pc \in {"returned", "copied", "connected", "done", "failed"}

\* the databases whose phone rows, and whose email rows, were ingested
PhonesIngested(k) ==
    address_book[k].exists /\ address_book[k].opens /\ address_book[k].phone_sql

EmailsIngested(k) == PhonesIngested(k) /\ address_book[k].email_sql

\* a row with a usable handle and name
Usable(row) ==
    strip(row.handle) # "" /\ strip(row.name) # "" /\ strip(row.name) # "Unknown"

\* the three variants of a phone handle: as stored, without the leading
\* '+', stripped of + ( ) space -
C14_Variants(handle) ==
    LET phone == strip(handle)
    IN {phone, IF startswith(phone, "+") THEN Tail(phone) ELSE phone,
        remove_chars(phone, PhonePunctuation)}

\* the usable ingested phone rows, as <<database, row number>>
C14_PhoneRows ==
    UNION {{<<k, r>> : r \in {n \in 1..Len(address_book[k].phones) :
                                  Usable(address_book[k].phones[n])}} :
              k \in {d \in 1..Len(address_book) : PhonesIngested(d)}}

\* the usable ingested email rows
C14_EmailRows ==
    UNION {{<<k, r>> : r \in {n \in 1..Len(address_book[k].emails) :
                                  Usable(address_book[k].emails[n])}} :
              k \in {d \in 1..Len(address_book) : EmailsIngested(d)}}

\* phone row a is ingested before phone row b
C14_Before(a, b) == a[1] < b[1] \/ (a[1] = b[1] /\ a[2] < b[2])

\* the name the last ingested row with variant v gives it: an email row of
\* database k comes after the phone rows of databases 1..k
C14_LastName(v) ==
    LET ph == {a \in C14_PhoneRows :
                  v \in C14_Variants(address_book[a[1]].phones[a[2]].handle)}
        em == {a \in C14_EmailRows :
                  v = lower(strip(address_book[a[1]].emails[a[2]].handle))}
        lastph == CHOOSE a \in ph : \A b \in ph : a = b \/ C14_Before(b, a)
        lastem == CHOOSE a \in em : \A b \in em : a = b \/ C14_Before(b, a)
    IN IF em # {} /\ (ph = {} \/ lastem[1] >= lastph[1])
       THEN strip(address_book[lastem[1]].emails[lastem[2]].name)
       ELSE strip(address_book[lastph[1]].phones[lastph[2]].name)

\* C14 as stated: after any sequence of phone rows from any number of
\* databases, the three variants of every ingested phone handle with a usable
\* name are keys of the table and all map to the same name.
C14_VariantsShareOneName ==
    Returned =>
        \A a \in C14_PhoneRows :
            LET row == address_book[a[1]].phones[a[2]]
            IN \A v \in C14_Variants(row.handle) :
                   /\ v \in DOMAIN handle_to_name
                   /\ handle_to_name[v] = handle_to_name[strip(row.handle)]

\* C14 as amended: the three variants of every ingested phone handle with a
\* usable name are keys of the table, and each maps to the name of the last
\* ingested row that has it as a variant; the three map to the row's own
\* name when no later ingested row shares a variant with it.
C14_VariantsMapToLastRow ==
    Returned =>
        \A a \in C14_PhoneRows :
            LET row == address_book[a[1]].phones[a[2]]
            IN \A v \in C14_Variants(row.handle) :
                   /\ v \in DOMAIN handle_to_name
                   /\ handle_to_name[v] = C14_LastName(v)
                   /\ (\A b \in C14_PhoneRows :
                          C14_Before(a, b) =>
                             v \notin C14_Variants(
                                 address_book[b[1]].phones[b[2]].handle))
                      /\ (\A b \in C14_EmailRows :
                            v # lower(strip(address_book[b[1]].emails[b[2]].handle)))
                      => handle_to_name[v] = strip(row.name)

\* two databases were ingested and the second one overwrote a variant of a
\* number of the first
C14_Witness ==
    /\ Returned
    /\ \E a, b \in C14_PhoneRows :
          /\ C14_Before(a, b)
          /\ handle_to_name[strip(address_book[a[1]].phones[a[2]].handle)]
                = strip(address_book[a[1]].phones[a[2]].name)
          /\ \E v \in C14_Variants(address_book[a[1]].phones[a[2]].handle) :
                handle_to_name[v] = strip(address_book[b[1]].phones[b[2]].name)
                /\ handle_to_name[v] # strip(address_book[a[1]].phones[a[2]].name)

\* the index has been loaded from people/
IndexLoaded == pc # "start"

\* the four aggregate sets as the loop uses them
LoadedIndex ==
    [slugs |-> existing_slugs, names |-> existing_names,
     emails |-> existing_emails, phones |-> existing_phones]

\* C15 as stated: a people file that cannot be read contributes nothing to
\* the four aggregate sets, which are what they would be without the file.
C15_UnreadableContributesNothing ==
    IndexLoaded =>
        \A md \in people :
            ~md.readable => LoadedIndex = load_people_index(people \ {md})

\* C15 as amended: a people file that cannot be read contributes its slug,
\* the lowercased file stem, to the slug set and nothing to the name, email
\* and phone sets; a contact whose name slugifies to that stem is known
\* because of it.
C15_UnreadableContributesSlug ==
    IndexLoaded =>
        \A md \in people :
            ~md.readable =>
                LET without == load_people_index(people \ {md})
                IN /\ existing_slugs = without.slugs \cup {lower(md.stem)}
                   /\ existing_names = without.names
                   /\ existing_emails = without.emails
                   /\ existing_phones = without.phones
                   /\ \A t \in Processed :
                         /\ is_real_name(NameAfterStep1(t))
                         /\ slugify(NameAfterStep1(t)) = lower(md.stem)
                         => ~InNamed(t) /\ ~InUnknown(t)

\* a contact is known by the slug of an unreadable file alone
C15_Witness ==
    /\ Finished
    /\ \E md \in people :
          /\ ~md.readable
          /\ lower(md.stem) \notin load_people_index(people \ {md}).slugs
          /\ \E t \in Processed :
                /\ label[t] = "known_slug"
                /\ slugify(NameAfterStep1(t)) = lower(md.stem)

\* the AddressBook files a connection is open on
OpenAddressBooks == {c \in connections : c.file = "AddressBook-v22.abcddb"}

\* C16: every connection load_contacts_map opened is closed when it has
\* returned, also when a query on a database raised and it was skipped.
C16_ClosedOnReturn == Returned => OpenAddressBooks = {}

\* the files that are live application databases
LiveFiles ==
    {LiveChatDb} \cup {AddressBookFile(k) : k \in 1..Len(address_book)}

\* C17 as stated: the Contacts and the Messages database are copied before
\* any query and every query runs against the copy: no connection is ever
\* opened on a live application database file.
C17_OnlyCopiesAreOpened ==
    /\ connected_files \cap LiveFiles = {}
    /\ connected_files \subseteq tmp_files

\* C17 as amended: the Messages database is copied to a temporary location
\* before any query on it, its queries run against the copy, and no
\* connection is ever opened on the live chat.db; the Contacts databases are
\* not copied: every connection to them is opened on the live AddressBook
\* file, and only on a file that exists.
C17_OnlyMessagesAreCopied ==
    /\ LiveChatDb \notin connected_files
    /\ \A c \in connected_files :
          \/ c = ChatCopy /\ c \in tmp_files
          \/ /\ c \in LiveFiles \ {LiveChatDb}
             /\ c \notin tmp_files
             /\ address_book[c.k].exists
    /\ dump_pc \in {"connected", "done"} => conn = ChatCopy /\ ChatCopy \in tmp_files

\* a run that read a live AddressBook file and then queried the copy of the
\* Messages database
C17_Witness ==
    /\ dump_pc = "done"
    /\ ChatCopy \in connected_files
    /\ \E k \in 1..Len(address_book) : AddressBookFile(k) \in connected_files

\* the dict a contact was read from has none of the four keys with a value
C18_Blank(t) ==
    \A key \in {"name", "identifier", "last_msg", "recent"} :
        dict_get(raw_contacts[t], key) = None

\* C18: the classification loop never fails: whatever keys of a contact are
\* missing, empty or None, and whatever the People-File index and the
\* Contact Directory hold, no read raises, every contact passed in has been
\* through an iteration when the lists are sorted, a lookup in an empty
\* index or an empty directory finds nothing, and a contact without any
\* field meets no branch.
C18_LoopNeverFails ==
    /\ pc # "error"
    /\ pc \in {"classify", "emails"} =>
          /\ Len(imessage_contacts) = Len(raw_contacts)
          /\ Len(label) = i - 1
          /\ \A t \in Processed :
                /\ people = {} => label[t] \notin KnownLabels
                /\ address_book = <<>> => imessage_contacts[t].resolved_name = ""
                /\ C18_Blank(t) => label[t] = "no_branch"
    /\ Sorted => Len(label) = Len(raw_contacts)

\* both lists were sorted after a loop over a dict without any key and a
\* dict whose name, last_msg and recent are None, with nothing to look up in
C18_Witness ==
    /\ Sorted
    /\ people = {}
    /\ address_book = <<>>
    /\ \E t, u \in Processed :
          /\ C18_Blank(t)
          /\ dict_get(raw_contacts[u], "name") = None
          /\ "name" \in DOMAIN raw_contacts[u]
          /\ InUnknown(u)

\* imessages.md was parsed in this run
Parsed == imessages_md.exists /\ pc \notin {"main", "imessages", "exit"}

\* the blocks that have a contact name or an identifier
KeptBlocks ==
    {n \in 1..Len(imessages_md.threads) :
        \/ contact_name_of(imessages_md.threads[n]) # ""
        \/ metadata(imessages_md.threads[n].identifier) # ""}

\* the contact that parse_imessage_export returns for block n, if any
ContactsOfBlock(n) ==
    {c \in Range(parse_imessage_export(imessages_md.threads)) : c.thread = n}

\* C19, as specified: every thread block yields one observed contact, with
\* the fields of its missing lines empty, so that as many contacts are
\* returned as there are blocks.
C19_EveryBlockYieldsContact ==
    Parsed =>
       /\ Len(imessage_contacts) = Len(imessages_md.threads)
       /\ imessage_report.total = Len(imessages_md.threads)
       /\ \A n \in 1..Len(imessages_md.threads) :
             \E c \in ContactsOfBlock(n) :
                /\ imessages_md.threads[n].identifier = None => c.identifier = ""
                /\ imessages_md.threads[n].last_msg = None => c.last_msg = ""
                /\ imessages_md.threads[n].count = None => c.count = [str |-> ""]

\* C19, amended: a thread block yields one observed contact exactly when it
\* has a contact name (a sender other than "Me", else its title) or an
\* identifier, and a block with neither yields none; a contact has an empty
\* identifier and last_msg where the line is missing, the count 0 where the
\* Message Count line is missing, and no previews without a message line; as
\* many contacts are returned as there are blocks with a name or identifier.
C19_BlocksWithNameOrIdentifierYieldContact ==
    Parsed =>
       /\ Len(imessage_contacts) = Cardinality(KeptBlocks)
       /\ imessage_report.total = Cardinality(KeptBlocks)
       /\ \A n \in 1..Len(imessages_md.threads) :
             LET b == imessages_md.threads[n]
             IN /\ n \notin KeptBlocks => ContactsOfBlock(n) = {}
                /\ n \in KeptBlocks =>
                      /\ Cardinality(ContactsOfBlock(n)) = 1
                      /\ \A c \in ContactsOfBlock(n) :
                            /\ b.identifier = None => c.identifier = ""
                            /\ b.last_msg = None => c.last_msg = ""
                            /\ b.count = None => c.count = [int |-> 0]
                            /\ b.messages = <<>> =>
                                  c.recent = <<>> /\ c.name = strip(b.title)

\* an export was parsed that has a block with a title only and a block with
\* neither a name nor an identifier
C19_Witness ==
    /\ Parsed
    /\ \E n, k \in 1..Len(imessages_md.threads) :
          /\ n \in KeptBlocks
          /\ imessages_md.threads[n].identifier = None
          /\ imessages_md.threads[n].last_msg = None
          /\ imessages_md.threads[n].count = None
          /\ imessages_md.threads[n].messages = <<>>
          /\ k \notin KeptBlocks
    /\ Len(imessage_contacts) = 1

\* C20: a missing input gets no report: without the sync directory main
\* exits with status 1 and writes nothing, and without imessages.md a run
\* neither creates nor modifies IMESSAGE_CONTACTS.md or
\* NEW_PEOPLE_CANDIDATES.md, whatever an earlier run left there and whatever
\* emails_received.md yields.
C20_NoReportForMissingInput ==
    /\ ~sync_dir_exists =>
          /\ pc \in {"main", "exit"}
          /\ pc = "exit" => exit_status = 1
          /\ imessage_report = NoReport
          /\ candidates_report = NoReport
          /\ outreach_report = NoReport
          /\ platform_section = <<>>
    /\ sync_dir_exists /\ ~imessages_md.exists =>
          /\ imessage_report \in {NoReport, StaleIMessageReport}
          /\ candidates_report \in {NoReport, StaleCandidatesReport}
          /\ platform_section = <<>>

\* a letter of either case or a digit
IsAlnum(ch) == ch \in LowerLetters \cup UpperLetters \cup Digits

RECURSIVE AlnumWords(_)
\* the maximal runs of letters and digits of s, in lower case
AlnumWords(s) ==
    IF s = "" THEN <<>>
    ELSE IF ~IsAlnum(At(s, 1)) THEN AlnumWords(Tail(s))
    ELSE LET n == IF \E k \in 1..Len(s) : ~IsAlnum(At(s, k))
                  THEN (CHOOSE k \in 1..Len(s) :
                           /\ ~IsAlnum(At(s, k))
                           /\ \A j \in 1..(k - 1) : IsAlnum(At(s, j))) - 1
                  ELSE Len(s)
         IN <<lower(SubSeq(s, 1, n))>> \o AlnumWords(SubSeq(s, n + 1, Len(s)))

\* x and y have the same letters and digits but for their case, and runs of
\* other characters at the same places
SameButForRunsAndCase(x, y) ==
    /\ AlnumWords(x) = AlnumWords(y)
    /\ (x = "") = (y = "")
    /\ x # "" => /\ IsAlnum(At(x, 1)) = IsAlnum(At(y, 1))
                 /\ IsAlnum(At(x, Len(x))) = IsAlnum(At(y, Len(y)))

\* C21: slugify is idempotent, and two names that differ only in the length
\* of their runs of whitespace or other non-alphanumeric characters, or only
\* in letter case, have the same slug.
C21_SlugifyIdempotentAndRunBlind ==
    fn = "slugify" =>
       /\ Len(results) = 2 => results[2] = results[1]
       /\ Len(results) >= 1 /\ SameButForRunsAndCase(args[1], args[2]) =>
             results[1][1] = results[1][2]

\* slugify was called twice on two different names alike but for a run and
\* for case, and changed both
C21_Witness ==
    /\ fn = "slugify"
    /\ Len(results) = 2
    /\ args[1] # args[2]
    /\ SameButForRunsAndCase(args[1], args[2])
    /\ \E k \in 1..Len(args[1]) : At(args[1], k) \in UpperLetters
    /\ contains(args[2], "  ")
    /\ results[1][1] \notin {"", args[1], args[2]}

\* the characters of s, in order
Chars(s) == [k \in 1..Len(s) |-> At(s, k)]

\* the digits of s, in order
DigitsOf(s) == SelectSeq(Chars(s), LAMBDA ch : ch \in Digits)

\* the token has a '+' and then the digits of raw, or the digits alone
TokenOf(raw, plus, token) ==
    Chars(token) = (IF plus /\ DigitsOf(raw) # <<>> THEN <<"+">> ELSE <<>>)
                      \o DigitsOf(raw)

\* the first character of raw is '+'
StartsWithPlus(raw) == raw # "" /\ At(raw, 1) = "+"

\* the first character of raw after its leading whitespace is '+'
PlusAfterWhitespace(raw) == StartsWithPlus(lstrip(raw, Whitespace))

\* C22, as specified: the token depends only on the digits and on whether the
\* input starts with '+': same digits and same leading-plus status give the
\* same token, the '+' is kept exactly when the input started with '+', the
\* token is empty without a digit, and normalize_phone is idempotent.
C22_DigitsAndLeadingPlusOnly ==
    fn = "normalize_phone" /\ Len(results) >= 1 =>
       /\ \A k \in 1..2 : TokenOf(args[k], StartsWithPlus(args[k]), results[1][k])
       /\ /\ DigitsOf(args[1]) = DigitsOf(args[2])
          /\ StartsWithPlus(args[1]) = StartsWithPlus(args[2])
          => results[1][1] = results[1][2]
       /\ Len(results) = 2 => results[2] = results[1]

\* C22, amended: the token depends only on the digits and on whether the
\* first character after the leading whitespace is '+': two raw strings with
\* the same digits and the same such status normalize to the same token
\* whatever punctuation they hold, the token is the digits with a '+' in
\* front exactly when the input, stripped of surrounding whitespace, starts
\* with '+' and has a digit, it is empty without a digit, and
\* normalize_phone is idempotent.
C22_DigitsAndPlusAfterWhitespaceOnly ==
    fn = "normalize_phone" /\ Len(results) >= 1 =>
       /\ \A k \in 1..2 :
             TokenOf(args[k], PlusAfterWhitespace(args[k]), results[1][k])
       /\ /\ DigitsOf(args[1]) = DigitsOf(args[2])
          /\ PlusAfterWhitespace(args[1]) = PlusAfterWhitespace(args[2])
          => results[1][1] = results[1][2]
       /\ Len(results) = 2 => results[2] = results[1]

\* normalize_phone was called twice on a number with a space before its '+'
\* and on the same number with one more punctuation character
C22_Witness ==
    /\ fn = "normalize_phone"
    /\ Len(results) = 2
    /\ args[1] # args[2]
    /\ ~StartsWithPlus(args[1])
    /\ PlusAfterWhitespace(args[1])
    /\ PlusAfterWhitespace(args[2])
    /\ DigitsOf(args[1]) = DigitsOf(args[2])
    /\ DigitsOf(args[1]) # <<>>
    /\ results[1][1] # args[1]

\* C23: with --dry-run no message is deleted, whatever the other flags:
\* jxa_delete_by_ids is called only in a run with --delete and --yes and
\* without --dry-run.
C23_DryRunDeletesNothing ==
    /\ argv.dry_run => jxa_calls = <<>>
    /\ jxa_calls # <<>> => argv.delete /\ argv.yes /\ ~argv.dry_run

\* C24: with --dry-run no file is written, whatever the other flags: files
\* are written only in a run with --fix and without --dry-run.
C24_DryRunWritesNothing ==
    /\ argv.dry_run => written = <<>>
    /\ written # <<>> => argv.fix /\ ~argv.dry_run

\* C25: fetch_messages with limit > 0 returns at most limit messages,
\* whatever the sizes of the result pages and wherever the server stops
\* returning a next cursor.
C25_AtMostLimitMessages ==
    tool_pc = "returned" /\ limit > 0 => Len(slack_messages) <= limit

\* the three forms of an identifier that resolve_phone_to_name looks up
LookupVariants(identifier) ==
    {identifier, Tail(identifier), remove_chars(identifier, PhonePunctuation)}

\* the candidates report of this run is being built or has been written, and
\* the outreach report has not touched the contacts yet
CandidatesPhase == pc \in {"classify", "emails", "outreach"}

\* C26: every contact in unknown_number_candidates has a phone-shaped
\* identifier or name, carries no resolved_name, and resolve_phone_to_name
\* finds no entry for its identifier in the Contact Directory (for a
\* '+'-prefixed identifier none of the three looked-up forms is a key); a
\* contact whose lookup succeeds is never in the unknown list.
C26_UnknownMeansUnresolved ==
    CandidatesPhase =>
        LET directory == Directory
        IN \A t \in Processed :
              LET found == resolve_phone_to_name(IdentifierOf(t), directory)
                  name == str_or(step1_resolved(imessage_contacts[t], directory),
                                 strip(imessage_contacts[t].name))
              IN /\ InUnknown(t) =>
                       /\ \/ startswith(IdentifierOf(t), "+")
                          \/ is_phone_number(name)
                       /\ imessage_contacts[t].resolved_name = ""
                       /\ found = ""
                       /\ startswith(IdentifierOf(t), "+") =>
                             LookupVariants(IdentifierOf(t))
                                 \cap DOMAIN directory = {}
                 /\ found # "" => ~InUnknown(t)

\* with a loaded Contact Directory, one number is filed as unknown and
\* another, which the directory knows under a variant, is not
C26_Witness ==
    /\ CandidatesPhase
    /\ DOMAIN Directory # {}
    /\ \E t, u \in Processed :
          /\ InUnknown(t)
          /\ startswith(IdentifierOf(t), "+")
          /\ IdentifierOf(u) \notin DOMAIN Directory
          /\ resolve_phone_to_name(IdentifierOf(u), Directory) # ""
          /\ ~InUnknown(u)

InEitherList(t) == InNamed(t) \/ InUnknown(t)

\* the slug of the first and last word of a name of two words or more
FirstLastSlugs(name) ==
    LET parts == split_ws(name)
    IN IF Len(parts) >= 2
       THEN {slugify(parts[1] \o " " \o parts[Len(parts)])}
       ELSE {}

\* the three checks that hold of every candidate whatever its name is
C27_EmailAndPhoneUnknown(t, index) ==
    /\ contains(IdentifierOf(t), "@")
          => normalize_email(IdentifierOf(t)) \notin index.emails
    /\ startswith(IdentifierOf(t), "+")
          => normalize_phone(IdentifierOf(t)) \notin index.phones
    /\ contains(NameAfterStep1(t), "@")
          => normalize_email(NameAfterStep1(t)) \notin index.emails

C27_SlugsUnknown(t, index) ==
    ({slugify(NameAfterStep1(t))} \cup FirstLastSlugs(NameAfterStep1(t)))
        \cap (index.slugs \cup index.names) = {}

\* the phone check as the loop makes it, on the name when the identifier has
\* no leading '+'
C27_PhoneUnknown(t, index) ==
    ~known_by_phone(NameAfterStep1(t), IdentifierOf(t), index.phones)

\* C27: no contact in either candidate list passes an 'already known' check
\* on its name after step 1: its email-shaped identifier is not a People
\* email, its '+'-prefixed identifier does not normalize to a People phone,
\* neither the slug of its name nor the slug of its first and last word is a
\* People slug or name, and its email-shaped name is not a People email.
C27_NoCandidateIsKnown ==
    LET index == PeopleIndex
    IN \A t \in Processed :
          InEitherList(t) =>
              C27_EmailAndPhoneUnknown(t, index) /\ C27_SlugsUnknown(t, index)

\* C27, amended: the email and phone checks as stated, the phone check also
\* on a '+'-prefixed name when the identifier has no '+', and the two slug
\* checks only for a name that is not empty, not phone-shaped and has no '@'.
C27_NoCandidateIsKnownByItsChecks ==
    LET index == PeopleIndex
    IN \A t \in Processed :
          InEitherList(t) =>
              /\ C27_EmailAndPhoneUnknown(t, index)
              /\ C27_PhoneUnknown(t, index)
              /\ is_real_name(NameAfterStep1(t)) => C27_SlugsUnknown(t, index)

\* with people files loaded, a candidate with a real name and a candidate
\* whose address-shaped name has the slug of a people file
C27_Witness ==
    /\ Finished
    /\ PeopleIndex.slugs # {}
    /\ \E t, u \in Processed :
          /\ InNamed(t) /\ is_real_name(NameAfterStep1(t))
          /\ InEitherList(u) /\ ~C27_SlugsUnknown(u, PeopleIndex)

\* the name a named candidate is reported under in this claim's terms
DisplayedName(t) ==
    str_or(imessage_contacts[t].resolved_name, strip(imessage_contacts[t].name))

\* C28: no named candidate is reported under a name that is already known:
\* the slug of its displayed name (resolved_name if set, else name) is in
\* neither the People slug set nor the People name set, also when
\* resolved_name was set by the Contact-Directory resolution of step 5.
C28_NamedCandidateNotKnownByName ==
    CandidatesPhase =>
        \A t \in Processed :
            InNamed(t) =>
                slugify(DisplayedName(t))
                    \notin (PeopleIndex.slugs \cup PeopleIndex.names)

InDrafts(t) == t \in Range(im_candidates)

\* C29: the two reports agree: every contact that gets an iMessage draft in
\* generate_outreach_drafts_report is in named_candidates of
\* generate_new_people_candidates_report, and no contact that the candidates
\* report classifies known, or files as an unknown number, gets a draft.
C29_DraftsOnlyForNamedCandidates ==
    pc \in {"drafts", "done"} =>
        \A t \in Processed :
            /\ InDrafts(t) => InNamed(t)
            /\ (label[t] \in KnownLabels \/ InUnknown(t)) => ~InDrafts(t)

\* the observed contacts as the parser hands them to the resolver
Observed ==
    [k \in 1..Len(imessage_contacts) |->
        [imessage_contacts[k] EXCEPT !.resolved_name = ""]]

RECURSIVE classify_from(_, _, _, _)
\* the classification loop run on `contacts` from position k on: the set of
\* contacts appended to named_candidates and the set of phone tokens of
\* the contacts appended to unknown_number_candidates
classify_from(contacts, k, seen, lists) ==
    IF k > Len(contacts) THEN lists
    ELSE LET c == contacts[k]
             resolved == step1_resolved(c, Directory)
             name == IF resolved # "" THEN resolved ELSE strip(c.name)
             outcome == classify(c, name, seen, PeopleIndex.slugs,
                                 PeopleIndex.names, PeopleIndex.emails,
                                 PeopleIndex.phones, Directory)
             num == unknown_number(name, strip(c.identifier))
         IN classify_from(
                contacts, k + 1,
                IF goes_to_unknown(outcome) THEN seen \cup {num} ELSE seen,
                [named |-> IF goes_to_named(outcome)
                           THEN lists.named \cup {c} ELSE lists.named,
                 tokens |-> IF goes_to_unknown(outcome)
                            THEN lists.tokens \cup {num} ELSE lists.tokens])

\* the two sets for the observed contacts taken in the order p
ListsInOrder(p) ==
    classify_from([k \in 1..Len(Observed) |-> Observed[p[k]]], 1, {},
                  [named |-> {}, tokens |-> {}])

\* the two sets of the run that has ended
ListsOfRun ==
    [named |-> {Observed[t] : t \in Range(named_candidates)},
     tokens |-> {PhoneTokenOf(t) : t \in Range(unknown_number_candidates)}]

\* C30: the resolver's result does not depend on the order of the observed
\* contacts: for every permutation of the input list the set of contacts in
\* named_candidates and the set of normalized phone tokens in
\* unknown_number_candidates are those of the run on the list as given.
C30_OrderIndependent ==
    Finished =>
        \A p \in Permutations(1..Len(imessage_contacts)) :
            ListsInOrder(p) = ListsOfRun

\* the loop run on the list as given yields the lists of the run
RunIsListsInGivenOrder ==
    Finished =>
        ListsInOrder([k \in 1..Len(imessage_contacts) |-> k]) = ListsOfRun

============================================================================
